---- MODULE Spec2Model ----
(***************************************************************************)
(* grabarr: the job execution engine (backend/app/runner.py) and the       *)
(* transfer daemon it drives over RPC (backend/app/rclone.py), as a state  *)
(* machine.                                                                *)
(*                                                                         *)
(* Every coroutine is cut at suspension points (await): one action is code *)
(* that runs without interruption on the single event loop. Stretches that *)
(* touch no state shared between tasks are joined into one action.         *)
(*                                                                         *)
(* Time. Of a failure stamp the code only ever computes now - stamp, so the *)
(* model keeps the time elapsed since the stamp, which Tick advances up to *)
(* Horizon, beyond which the code no longer tells elapsed times apart. A   *)
(* start stamp is only copied into the history row: the model keeps which  *)
(* run's dispatch took it.                                                 *)
(***************************************************************************)
EXTENDS Integers, Sequences, FiniteSets, TLC

\* ------------------------------------------------------------------ bounds
\* the failure_cooldown_seconds setting, in clock ticks
FailureCooldown == 1
\* the max_history_entries setting
MaxHistoryEntries == 1

\* elapsed times are counted up to here
Horizon == FailureCooldown

JobIds == {1}
\* the coroutines that may be inside run_job at the same time
Calls == {1, 2}
\* the job handles the daemon hands out in one behaviour
Handles == {1, 2}
\* the tasks that may be inside _log_history at the same time (monitors of
\* different jobs, failing run_job calls)
Loggers == {1, 2}
\* the history rows ever inserted in one behaviour
MaxRows == 4
\* SESSION_TIMEOUT, in clock ticks
SessionTimeout == 1
\* the sleep of the cleanup loop (60 s), in clock ticks
SweepPeriod == 1
\* the browse session ids handed out in one behaviour
Sids == {1, 2}
\* the JobAction rows a job is given
JobActionIds == {1, 2}
\* the largest order value of a JobAction
MaxOrder == 1
\* the triggers of _execute_actions
Triggers == {"pre", "post_always", "post_success", "post_fail"}
\* the job ids given to the scheduler
SchedJobIds == {1, 2, 3}
\* the schedule strings given to add_scheduler_job: two cron expressions and
\* the name of a schedule template, which is no cron expression
Schedules == {"0 * * * *", "*/5 * * * *", "Daily"}
\* the values of Remote.type given to get_fs_string: the supported backends
\* and one that is not
SupportedTypes == {"local", "sftp", "ftp", "smb", "s3", "http", "webdav"}
RemoteKinds == SupportedTypes \cup {"dropbox"}
\* the decrypted credential data: none, or a password and a secret key, each
\* possibly empty
NoCredential == [present |-> FALSE, password |-> "", secret_access_key |-> ""]
Credentials ==
    {NoCredential} \cup [present : {TRUE}, password : {"", "hunter2"},
                          secret_access_key : {"", "s3cr3t"}]
\* the longest source_path and dest_path, in characters
MaxPathLen == 3
\* the characters of a path
PathChars == {"/", "a", "b"}
\* the addresses get_fs_string returns, as characters: the connection part
\* (":") and the remote's path
FsBases == {<<":">>, <<":", "/">>, <<":", "/", "x">>}
\* the ids of the Job rows a sync reads and the job endpoints work on
SyncJobIds == {1, 2}
\* the messages published on the event channel
MaxMessages == 2
\* the event streams opened by clients
Subs == {1, 2}
\* the backend types a browse session is created for
RemoteTypes == {"sftp", "s3", "local"}
\* Python's None for a time-valued slot
None == -1

\* ------------------------------------------------------------ configuration
\* Job.allow_concurrent_runs / Job.max_concurrent_runs as the API stores them:
\* the column is a plain nullable integer, so 0 (like null) is a storable value
JobConfigs ==
    { [allow_concurrent_runs |-> FALSE, max_concurrent_runs |-> 1],
      [allow_concurrent_runs |-> TRUE,  max_concurrent_runs |-> 0],
      [allow_concurrent_runs |-> TRUE,  max_concurrent_runs |-> 2] }

\* What run_job finds when it resolves the job's remotes and credentials:
\* whether both Remote rows exist, and the state of the Credential a remote
\* references (the remotes are of a type that takes one)
SetupCases ==
    { [remotes |-> TRUE,  cred |-> "ok"],
      [remotes |-> FALSE, cred |-> "ok"],
      [remotes |-> TRUE,  cred |-> "missing"],
      [remotes |-> TRUE,  cred |-> "undecryptable"] }

NoSetup == [remotes |-> TRUE, cred |-> "ok"]

VARIABLES
    job,                    \* the Job rows: configuration and status fields
    history,                \* the JobHistory table, oldest row first
    active_jobs,            \* JobRunner.active_jobs: job id -> daemon handle
    job_snapshots,          \* JobRunner.job_snapshots: job id -> snapshot
    job_start_times,        \* JobRunner.job_start_times: job id -> time
    active_job_counts,      \* JobRunner.active_job_counts: job id -> count
    last_failure_times,     \* JobRunner.last_failure_times: job id -> time
    job_transferred_files,  \* JobRunner.job_transferred_files: job id -> names
    job_final_stats,        \* JobRunner.job_final_stats: job id -> stats
    transfer,               \* the daemon: handle -> state of the async transfer
    nextHandle,             \* the daemon's next job handle
    runLog,                 \* per dispatched run, in order: the events published
                            \* for it, its history write, its action triggers
    call,                   \* the run_job coroutines
    mon,                    \* the _monitor_job tasks, by daemon handle
    failed_ago,             \* observer: time since a monitor last recorded a
                            \* failed run of the job (None: never)
    succeeded_since,        \* observer: a monitor recorded a successful run of
                            \* the job after that failure
    rows,                   \* the JobHistory table seen by concurrent
                            \* _log_history calls: the ids of its rows, an
                            \* older row having the smaller id and timestamp
    nextRowId,              \* the id of the next inserted row
    logger,                 \* the _log_history calls in progress
    running,                \* BrowseSessionManager._running
    sessions,               \* BrowseSessionManager.sessions, by session id
    profiles,               \* the daemon: the temporary fallback profiles
    sweeper,                \* the _cleanup_loop task
    stopper,                \* the stop() coroutine
    ender,                  \* an end_session call made through the API
    closes,                 \* observer: connection closes, by session id
    deleteReqs,             \* observer: profile deletions requested
    lastCreate,             \* observer: the create_session call just made
    lastBrowse,             \* observer: the browse call just made
    job_actions,            \* the JobAction rows of the job, by row id
    act,                    \* the _execute_actions call in progress
    pipeline,               \* the run around it: run_job, then _monitor_job
    store,                  \* the scheduler's job store: the triggers held
    lastSched,              \* observer: the scheduler call just made
    lastSync,               \* observer: the jobs the sync just made has read
    job_rows,               \* the ids of the Job rows in the database
    deleter,                \* the delete_job request in progress
    lastFs,                 \* observer: the get_fs_string call just made
    lastPaths,              \* observer: the addresses run_job just built
    browser,                \* the browse call in flight, then its outcome
    subscribers,            \* EventManager.subscribers: the queues, by stream
    stream,                 \* the event streams: generator, queue, received
    published,              \* the number of messages published so far
    job_table               \* the Job rows the job endpoints work on

runnerVars == <<active_jobs, job_snapshots, job_start_times, active_job_counts,
                last_failure_times, job_transferred_files, job_final_stats>>
vars == <<job, history, active_jobs, job_snapshots, job_start_times,
          active_job_counts, last_failure_times, job_transferred_files,
          job_final_stats, transfer, nextHandle, runLog, call, mon,
          failed_ago, succeeded_since, rows, nextRowId, logger,
          running, sessions, profiles, sweeper, stopper, ender, closes,
          deleteReqs, lastCreate, lastBrowse, job_actions, act, pipeline,
          store, lastSched, lastSync, job_rows, deleter, lastFs, lastPaths,
          browser, subscribers, stream, published, job_table>>
observerVars == <<failed_ago, succeeded_since>>
\* the state of a concurrent history write and prune
pruneVars == <<rows, nextRowId, logger>>
\* what the job runner's own steps leave alone
\* the browse session manager and its observers
browseVars == <<running, sessions, profiles, sweeper, stopper, ender, closes,
                deleteReqs, lastCreate, lastBrowse>>
\* the action pipeline of one run
actionVars == <<job_actions, act, pipeline>>
\* the scheduler and its observer
schedVars == <<store, lastSched, lastSync>>
\* the Job table and the endpoint that deletes from it
deleteVars == <<job_rows, deleter>>
\* the observers of the address construction
addressVars == <<lastFs, lastPaths>>
\* a browse call that is followed through its suspension
listingVars == <<browser>>
\* the event channel
eventVars == <<subscribers, stream, published>>
\* the Job table behind the job endpoints
apiVars == <<job_table>>
otherVars == <<pruneVars, browseVars, actionVars, schedVars, deleteVars,
               addressVars, listingVars, eventVars, apiVars>>

\* the BrowseSession object made for a session id, and where it is: not yet
\* made ("unused"), dropped because create_session raised ("failed"), in the
\* sessions dict ("registered"), or popped from it ("ended"); the time since last_accessed; whether ssh_conn is set and
\* whether rclone_remote_name is set
NoSession == [state |-> "unused", idle |-> 0, ssh_conn |-> FALSE,
              rclone_remote_name |-> FALSE]

\* a task of the session manager: where it is, the time slept, the session
\* ids it still has to end, and the session it popped and is cleaning up
\* (cur = 0: none)
NoTask == [pc |-> "off", slept |-> 0, pending |-> {}, cur |-> 0]

\* what the observer keeps of the create_session call of the last step
NoCreate == [sid |-> 0, remote_type |-> "local", try_ssh |-> FALSE,
             ssh_ok |-> FALSE, daemon_ok |-> FALSE, connects |-> 0,
             daemon_calls |-> 0, result |-> "none"]

\* what the observer keeps of the browse call of the last step
NoBrowse == [sid |-> 0, result |-> "none"]

\* a JobAction row of the job: its trigger, its order value, and whether
\* its Action still exists
NoJobAction == [present |-> FALSE, trigger |-> "pre", order |-> 0,
                has_action |-> FALSE]

\* an _execute_actions call: where it is, its trigger, the rows fetched and
\* not yet processed, the rows whose action was run, in that order, and
\* those of them that raised
NoAct == [pc |-> "idle", trigger |-> "pre", queue |-> <<>>, ran |-> <<>>,
          errors |-> {}]

\* the run that calls _execute_actions: where it is, whether the transfer
\* was dispatched, the final status of the transfer, the status written to
\* history and to the job, the status of the job_update event published,
\* and the triggers in which an action raised
NoPipeline == [pc |-> "idle", dispatched |-> FALSE, final_status |-> "none",
               history |-> "none", last_status |-> "none", event |-> "none",
               failed_in |-> {}]

\* what the observer keeps of a scheduler call: the function, its arguments,
\* whether the job id had a trigger before, and whether the call raised
NoSched == [op |-> "none", job_id |-> 0, cron_expression |-> "",
            had_trigger |-> FALSE, raised |-> FALSE]

\* what the observer keeps of a sync_scheduler_jobs call: whether the step
\* was one, and the Job rows it read
NoSync == [op |-> "none", jobs |-> <<>>]

\* no get_fs_string call in the last step
NoFs == [type |-> "none", credential |-> "none", url |-> "",
         obscure |-> "ok", result |-> "none", error |-> "none",
         params |-> {}]

\* no address construction in the last step
NoPaths == [copy_mode |-> "none", src_fs |-> <<>>, dst_fs |-> <<>>,
            source_path |-> <<>>, dest_path |-> <<>>, resolved_dst |-> <<>>,
            src |-> <<>>, dst |-> <<>>]

\* no browse call followed yet: pc "wait" is a call suspended in its listing;
\* used is the set of listing strategies the call has entered
NoListing == [pc |-> "off", sid |-> 0, used |-> {}, result |-> "none"]

\* no Job row under the id
NoJobRow == [present |-> FALSE, enabled |-> FALSE, schedule |-> ""]

\* an event stream not opened yet. pc: "get" the generator is suspended in
\* queue.get(), "yield" it has yielded a message that the response is
\* sending, "closed" it has ended; from is the number of messages published
\* before the stream subscribed; got is what the client was sent
NoStream == [pc |-> "off", queue |-> <<>>, yielded |-> <<>>, got |-> <<>>,
             from |-> 0]

\* a _log_history call: where it is, and _prune_history's locals
\* entries_to_delete and ids_to_delete
IdleLogger == [pc |-> "idle", entries_to_delete |-> 0, ids_to_delete |-> {}]

\* a run_job coroutine: where it is (or how it last returned), its job id,
\* what it resolved, the handle the daemon gave it
IdleCall == [pc |-> "idle", job |-> 1, setup |-> NoSetup, handle |-> 0]
\* a _monitor_job task: where it is, its job id, whether its local `stats`
\* is assigned, and its local final_status
NoMonitor == [pc |-> "none", job |-> 1, stats |-> FALSE, final_status |-> "none"]

Init ==
    /\ job \in [JobIds -> {[cfg |-> c, last_status |-> "idle", last_error |-> "none"] : c \in JobConfigs}]
    /\ history = <<>>
    /\ active_jobs = [j \in JobIds |-> 0]
    /\ job_snapshots = [j \in JobIds |-> 0]
    /\ job_start_times = [j \in JobIds |-> 0]
    /\ active_job_counts = [j \in JobIds |-> 0]
    /\ last_failure_times = [j \in JobIds |-> None]
    /\ job_transferred_files = [j \in JobIds |-> {}]
    /\ job_final_stats = [j \in JobIds |-> 0]
    /\ transfer = [h \in Handles |-> "none"]
    /\ nextHandle = 1
    /\ runLog = [h \in Handles |-> <<>>]
    /\ call = [c \in Calls |-> IdleCall]
    /\ mon = [h \in Handles |-> NoMonitor]
    /\ failed_ago = [j \in JobIds |-> None]
    /\ succeeded_since = [j \in JobIds |-> FALSE]
    /\ rows = {}
    /\ nextRowId = 1
    /\ logger = [w \in Loggers |-> IdleLogger]
    /\ running = FALSE
    /\ sessions = [sid \in Sids |-> NoSession]
    /\ profiles = {}
    /\ sweeper = NoTask
    /\ stopper = NoTask
    /\ ender = NoTask
    /\ closes = [sid \in Sids |-> 0]
    /\ deleteReqs = [sid \in Sids |-> 0]
    /\ lastCreate = NoCreate
    /\ lastBrowse = NoBrowse
    /\ job_actions = [id \in JobActionIds |-> NoJobAction]
    /\ act = NoAct
    /\ pipeline = NoPipeline
    /\ store = {}
    /\ lastSched = NoSched
    /\ lastSync = NoSync
    /\ job_rows = JobIds
    /\ deleter = [pc |-> "idle", job_id |-> 0]
    /\ lastFs = NoFs
    /\ lastPaths = NoPaths
    /\ browser = NoListing
    /\ subscribers = <<>>
    /\ stream = [sub \in Subs |-> NoStream]
    /\ published = 0
    /\ job_table = [id \in SyncJobIds |-> NoJobRow]

\* ----------------------------------------------------------------- helpers
\* a counter that would also count the run_job calls that have passed the
\* concurrency checks and not yet incremented it
GetActiveCountWithAdmitted(counts, j) ==
    counts[j] + Cardinality({c \in Calls :
        call[c].job = j /\ call[c].pc \in {"cooldown", "dispatch", "committed"}})

\* JobRunner._get_active_count: a job id absent from the dict counts 0
GetActiveCount(counts, j) == counts[j]

\* JobRunner._increment_active_count
IncrementActiveCount(counts, j) == [counts EXCEPT ![j] = @ + 1]

\* JobRunner._decrement_active_count: max(0, n - 1), nothing for an absent key
DecrementActiveCount(counts, j) ==
    IF counts[j] > 0 THEN [counts EXCEPT ![j] = @ - 1] ELSE counts

\* the stored limit taken as it is, without the `or 1`
MaxConcurrentStored(cfg) == cfg.max_concurrent_runs

\* run_job: max_concurrent = job.max_concurrent_runs or 1
MaxConcurrentOf(cfg) ==
    IF cfg.max_concurrent_runs = 0 THEN 1 ELSE cfg.max_concurrent_runs

\* the concurrency checks without the one for allow_concurrent_runs = false
ConcurrencySkipLimitOnly(cfg, current_count) ==
    cfg.allow_concurrent_runs /\ current_count >= MaxConcurrentOf(cfg)

\* run_job: the two concurrency checks that return silently
ConcurrencySkip(cfg, current_count) ==
    \/ ~cfg.allow_concurrent_runs /\ current_count > 0
    \/ cfg.allow_concurrent_runs /\ current_count >= MaxConcurrentOf(cfg)

\* a runner without the failure cooldown
CooldownNever(elapsed) == FALSE

\* run_job: the failure cooldown check; elapsed is now - last_failure_times[j]
\* (None: the job id is not in the dict)
CooldownSkip(elapsed) ==
    /\ elapsed # None
    /\ elapsed < FailureCooldown

\* run_job: a Remote row is missing (ValueError), or get_fs_string raises
\* because decrypt_credential_data raises on an undecryptable payload. A
\* credential_id whose Credential row is gone selects None, and
\* get_fs_string(remote, None) builds the address without credentials.
SetupFails(s) ==
    \/ ~s.remotes
    \/ s.cred = "undecryptable"

\* JobRunner._prune_history: delete the oldest rows beyond max_history_entries
PruneHistory(hist) ==
    IF Len(hist) > MaxHistoryEntries
    THEN SubSeq(hist, Len(hist) - MaxHistoryEntries + 1, Len(hist))
    ELSE hist

\* a _log_history whose insert is lost
LogHistoryLost(hist, row) == hist

\* JobRunner._log_history: insert the row, commit, prune
LogHistory(hist, row) == PruneHistory(Append(hist, row))

\* The row _log_history builds. `run` is the daemon job id inside the raw
\* status payload kept in `details` (0: a row written by run_job itself).
\* started_at is the run whose dispatch stamped the start time (0: None,
\* no start time); completed_at is the moment the row is built.
HistoryRow(j, status, run, snapshot, started_at) ==
    [job_id |-> j, status |-> status, run |-> run, job_snapshot |-> snapshot,
     started_at |-> started_at]

\* run_job: the row of an immediate failure (no snapshot, no start time)
FailedRow(j) == HistoryRow(j, "failed", 0, 0, 0)

\* a monitor that takes every finished transfer for a success
FinalStatusSuccess(daemon_state) == "success"

\* _monitor_job: final_status = "success" if status['success'] else "failed"
FinalStatus(daemon_state) ==
    IF daemon_state = "success" THEN "success" ELSE "failed"

\* a monitor that stamps a failure and leaves the stamp alone on success
TrackFailureKeep(times, j, final_status) ==
    [times EXCEPT ![j] = IF final_status = "failed" THEN 0 ELSE @]

\* _monitor_job: the cooldown stamp of a finished run: now on failure,
\* deleted on success
TrackFailure(times, j, final_status) ==
    [times EXCEPT ![j] = IF final_status = "failed" THEN 0 ELSE None]

\* _monitor_job: the cleanup after the loop (also reached by every break)
MonitorCleanup(handles, j, h) ==
    IF handles[j] = h THEN [handles EXCEPT ![j] = 0] ELSE handles

\* a progress event joins the run's log; a series of them is logged once
LogProgress(log) ==
    IF Len(log) > 0 /\ log[Len(log)] = "progress" THEN log
    ELSE Append(log, "progress")

\* the time elapsed since a stamp, one tick later
Older(elapsed) ==
    IF elapsed = None \/ elapsed >= Horizon THEN elapsed ELSE elapsed + 1

\* how a run_job call has ended: never called, skipped, raised by a setup
\* error, raised by the daemon's rejection of the start request, returned
\* after spawning the monitor
Returned == {"idle", "skipped", "raised", "rejected", "done"}

\* run_job has returned or raised: the coroutine's locals are gone
EndCall(cl, pc) == [IdleCall EXCEPT !.pc = pc, !.job = cl.job]

\* the states in which job/status reports a transfer finished: success,
\* failed with an error, or cancelled by job/stop (success = false)
Finished == {"success", "failed", "cancelled"}

\* ----------------------------------------------------------------- stop_job
\* a stop_job that also forgets the handle it asked the daemon to stop
StopJobUntrack(j) ==
    /\ UNCHANGED otherVars
    /\ active_jobs[j] # 0
    /\ transfer[active_jobs[j]] = "running"
    /\ transfer' = [transfer EXCEPT ![active_jobs[j]] = "cancelled"]
    /\ active_jobs' = [active_jobs EXCEPT ![j] = 0]
    /\ UNCHANGED <<job, history, job_snapshots, job_start_times,
                   active_job_counts, last_failure_times,
                   job_transferred_files, job_final_stats, nextHandle, runLog,
                   call, mon, observerVars>>

\* stop_job(job_id): nothing when no handle is tracked for the job; otherwise
\* job/stop is called for the tracked handle: the call raises (logged,
\* swallowed) or has no effect on a transfer already finished, or the daemon
\* cancels the running transfer
StopJob(j) ==
    \/ /\ active_jobs[j] = 0
       /\ UNCHANGED vars
    \/ /\ active_jobs[j] # 0
       /\ \/ UNCHANGED vars
          \/ /\ transfer[active_jobs[j]] = "running"
             /\ transfer' = [transfer EXCEPT ![active_jobs[j]] = "cancelled"]
             /\ UNCHANGED <<job, history, runnerVars, nextHandle, runLog,
                            call, mon, observerVars, otherVars>>

\* ------------------------------------------------------------------ run_job
\* a caller (API endpoint, scheduler trigger) invokes run_job(job_id); the
\* coroutine suspends on the query that loads the Job row
RunJobCall(c, j) ==
    /\ UNCHANGED otherVars
    /\ call[c].pc \in Returned
    /\ \A d \in Calls : d < c => call[d].pc \notin Returned
    /\ call' = [call EXCEPT ![c] = [IdleCall EXCEPT !.pc = "load", !.job = j]]
    /\ UNCHANGED <<job, history, runnerVars, transfer, nextHandle, runLog, mon,
                   observerVars>>

\* the Job row is loaded; the concurrency checks; then the coroutine suspends
\* on _get_system_setting('failure_cooldown_seconds')
RunJobAdmit(c) ==
    /\ UNCHANGED otherVars
    /\ call[c].pc = "load"
    /\ LET j == call[c].job
           current_count == GetActiveCount(active_job_counts, j)
       IN  call' = [call EXCEPT ![c] =
                        IF ConcurrencySkip(job[j].cfg, current_count)
                        THEN EndCall(@, "skipped")
                        ELSE [@ EXCEPT !.pc = "cooldown"]]
    /\ UNCHANGED <<job, history, runnerVars, transfer, nextHandle, runLog, mon,
                   observerVars>>

\* a cooldown check that records the skipped call as a failed run
RunJobCooldownLogged(c) ==
    /\ UNCHANGED otherVars
    /\ call[c].pc = "cooldown"
    /\ LET j == call[c].job
       IN  IF CooldownSkip(last_failure_times[j])
           THEN /\ call' = [call EXCEPT ![c] = EndCall(@, "skipped")]
                /\ history' = LogHistory(history, FailedRow(j))
           ELSE /\ call' = [call EXCEPT ![c].pc = "dispatch"]
                /\ UNCHANGED history
    /\ UNCHANGED <<job, runnerVars, transfer, nextHandle, runLog, mon,
                   observerVars>>

\* the cooldown check; then the coroutine suspends on the Remote queries
RunJobCooldown(c) ==
    /\ UNCHANGED otherVars
    /\ call[c].pc = "cooldown"
    /\ LET j == call[c].job
       IN  call' = [call EXCEPT ![c] =
                        IF CooldownSkip(last_failure_times[j])
                        THEN EndCall(@, "skipped")
                        ELSE [@ EXCEPT !.pc = "dispatch"]]
    /\ UNCHANGED <<job, history, runnerVars, transfer, nextHandle, runLog, mon,
                   observerVars>>

\* Remotes and credentials are resolved and the addresses built: a failure is
\* logged as a failed history row and raised. Otherwise the pre actions run
\* and sync/<operation> is called: the daemon rejects the request (logged as
\* a failed row, raised) or returns a job handle; the handle is tracked and
\* the Job row marked running; then the coroutine suspends on db.commit()
RunJobDispatch(c) ==
    /\ UNCHANGED otherVars
    /\ call[c].pc = "dispatch"
    /\ \E s \in SetupCases :
        LET j == call[c].job
            h == nextHandle
        IN
        IF SetupFails(s)
        THEN /\ history' = LogHistory(history, FailedRow(j))
             /\ call' = [call EXCEPT ![c] = EndCall(@, "raised")]
             /\ UNCHANGED <<transfer, nextHandle, active_jobs, job>>
        ELSE \/ /\ history' = LogHistory(history, FailedRow(j))
                /\ call' = [call EXCEPT ![c] = EndCall(@, "rejected")]
                /\ UNCHANGED <<transfer, nextHandle, active_jobs, job>>
             \/ /\ nextHandle \in Handles
                /\ transfer' = [transfer EXCEPT ![h] = "running"]
                /\ nextHandle' = nextHandle + 1
                /\ active_jobs' = [active_jobs EXCEPT ![j] = h]
                /\ job' = [job EXCEPT ![j].last_status = "running",
                                      ![j].last_error = "none"]
                /\ call' = [call EXCEPT ![c].pc = "committed", ![c].setup = s,
                                        ![c].handle = h]
                /\ UNCHANGED history
    /\ UNCHANGED <<job_snapshots, job_start_times, active_job_counts,
                   last_failure_times, job_transferred_files, job_final_stats,
                   runLog, mon, observerVars>>

\* the job_update(running) event, the snapshot, the start time, the counter
\* increment, and the monitor task; run_job returns
RunJobSpawn(c) ==
    /\ UNCHANGED otherVars
    /\ call[c].pc = "committed"
    /\ LET j == call[c].job
           h == call[c].handle
       IN
        /\ runLog' = [runLog EXCEPT ![h] = Append(@, "job_update_running")]
        /\ job_snapshots' = [job_snapshots EXCEPT ![j] = h]
        /\ job_start_times' = [job_start_times EXCEPT ![j] = h]
        /\ active_job_counts' = IncrementActiveCount(active_job_counts, j)
        /\ mon' = [mon EXCEPT ![h] = [NoMonitor EXCEPT !.pc = "poll", !.job = j]]
    /\ call' = [call EXCEPT ![c] = EndCall(@, "done")]
    /\ UNCHANGED <<job, history, active_jobs, last_failure_times,
                   job_transferred_files, job_final_stats, transfer,
                   nextHandle, observerVars>>

\* ------------------------------------------------------------- _monitor_job
\* the observer notes the outcome a monitor records for a finished run
Observe(j, final_status) ==
    IF final_status = "failed"
    THEN /\ failed_ago' = [failed_ago EXCEPT ![j] = 0]
         /\ succeeded_since' = [succeeded_since EXCEPT ![j] = FALSE]
    ELSE /\ succeeded_since' = [succeeded_since EXCEPT ![j] = failed_ago[j] # None]
         /\ UNCHANGED failed_ago

\* the task has ended: its locals are gone
EndMonitor(m, pc) == [NoMonitor EXCEPT !.pc = pc, !.job = m.job]

\* any exception inside the loop is caught by `except Exception: ... break`;
\* the handle cleanup after the loop follows
MonitorBreak(h) ==
    /\ mon' = [mon EXCEPT ![h] = EndMonitor(@, "dead")]
    /\ active_jobs' = MonitorCleanup(active_jobs, mon[h].job, h)

\* One turn of the loop. job/status raises (timeout, HTTP error); or it
\* reports the transfer unfinished and core/stats raises; or core/stats
\* returns: the name seen transferring is accumulated, the stats retained, a
\* progress event published, asyncio.sleep(0.5); or job/status reports the
\* transfer finished: the tracking cleanup, the counter decrement and the
\* cooldown stamp run before the next await
MonPoll(h) ==
    /\ UNCHANGED otherVars
    /\ mon[h].pc = "poll"
    /\ LET j == mon[h].job IN
       \/ /\ MonitorBreak(h)
          /\ UNCHANGED <<active_job_counts, last_failure_times,
                         job_transferred_files, job_final_stats, runLog,
                         observerVars>>
       \/ /\ transfer[h] = "running"
          /\ job_transferred_files' =
                [job_transferred_files EXCEPT ![j] = @ \cup {h}]
          /\ job_final_stats' = [job_final_stats EXCEPT ![j] = h]
          /\ runLog' = [runLog EXCEPT ![h] = LogProgress(@)]
          /\ mon' = [mon EXCEPT ![h].stats = TRUE]
          /\ UNCHANGED <<active_jobs, active_job_counts, last_failure_times,
                         observerVars>>
       \/ /\ transfer[h] \in Finished
          /\ active_jobs' = [active_jobs EXCEPT ![j] = 0]
          /\ active_job_counts' = DecrementActiveCount(active_job_counts, j)
          /\ last_failure_times' =
                TrackFailure(last_failure_times, j, FinalStatus(transfer[h]))
          /\ mon' = [mon EXCEPT ![h].pc = "finish",
                                ![h].final_status = FinalStatus(transfer[h])]
          /\ Observe(j, FinalStatus(transfer[h]))
          /\ UNCHANGED <<job_transferred_files, job_final_stats, runLog>>
    /\ UNCHANGED <<job, history, job_snapshots, job_start_times, transfer,
                   nextHandle, call>>

\* what the monitor does after the history write: the post_always actions,
\* post_success or post_fail, the terminal job_update event
PostLog(final_status) ==
    <<"post_always",
      IF final_status = "success" THEN "post_success" ELSE "post_fail",
      IF final_status = "success" THEN "job_update_success"
                                  ELSE "job_update_failed">>

\* The Job row's status fields are committed; the per-job files, stats,
\* snapshot and start time are taken out of the runner's dicts and written
\* by _log_history. Then the action context is built, which reads the local
\* `stats`: a monitor whose first status poll already found the transfer
\* finished never assigned it (UnboundLocalError, caught, break). Otherwise
\* the post actions run, the terminal event is published, and the loop ends
MonFinish(h) ==
    /\ UNCHANGED otherVars
    /\ mon[h].pc = "finish"
    /\ LET j == mon[h].job IN
        /\ job' = [job EXCEPT
                ![j].last_status = mon[h].final_status,
                ![j].last_error = IF mon[h].final_status = "failed"
                                  THEN "daemon_error" ELSE "none"]
        /\ job_transferred_files' = [job_transferred_files EXCEPT ![j] = {}]
        /\ job_final_stats' = [job_final_stats EXCEPT ![j] = 0]
        /\ job_snapshots' = [job_snapshots EXCEPT ![j] = 0]
        /\ job_start_times' = [job_start_times EXCEPT ![j] = 0]
        /\ history' = LogHistory(history,
                HistoryRow(j, mon[h].final_status, h, job_snapshots[j],
                           job_start_times[j]))
        /\ IF mon[h].stats
           THEN /\ runLog' = [runLog EXCEPT ![h] =
                        Append(@, "history") \o PostLog(mon[h].final_status)]
                /\ mon' = [mon EXCEPT ![h] = EndMonitor(@, "done")]
                /\ active_jobs' = MonitorCleanup(active_jobs, j, h)
           ELSE /\ runLog' = [runLog EXCEPT ![h] = Append(@, "history")]
                /\ MonitorBreak(h)
    /\ UNCHANGED <<active_job_counts, last_failure_times, transfer,
                   nextHandle, call, observerVars>>

\* ------------------------------------------------------------- environment
\* the daemon finishes an asynchronous transfer, with or without an error
TransferFinish(h) ==
    /\ UNCHANGED otherVars
    /\ transfer[h] = "running"
    /\ \E r \in {"success", "failed"} : transfer' = [transfer EXCEPT ![h] = r]
    /\ UNCHANGED <<job, history, runnerVars, nextHandle, runLog, call, mon,
                   observerVars>>

\* time passes: every stamp is one tick older
Tick ==
    /\ UNCHANGED otherVars
    /\ last_failure_times' = [j \in JobIds |-> Older(last_failure_times[j])]
    /\ failed_ago' = [j \in JobIds |-> Older(failed_ago[j])]
    /\ UNCHANGED <<job, history, active_jobs, job_snapshots, job_start_times,
                   active_job_counts, job_transferred_files, job_final_stats,
                   transfer, nextHandle, runLog, call, mon, succeeded_since>>

Next ==
    \/ \E c \in Calls, j \in JobIds : RunJobCall(c, j)
    \/ \E c \in Calls : RunJobAdmit(c)
    \/ \E c \in Calls : RunJobCooldown(c)
    \/ \E c \in Calls : RunJobDispatch(c)
    \/ \E c \in Calls : RunJobSpawn(c)
    \/ \E h \in Handles : MonPoll(h)
    \/ \E h \in Handles : MonFinish(h)
    \/ \E h \in Handles : TransferFinish(h)
    \/ \E j \in JobIds : StopJob(j)
    \/ Tick

Spec == Init /\ [][Next]_vars

\* ------------------------------------------------------------ get_fs_string
\* only the address observers move
AddressOnly ==
    UNCHANGED <<job, history, runnerVars, transfer, nextHandle, runLog, call,
                mon, observerVars, pruneVars, browseVars, actionVars,
                schedVars, deleteVars, listingVars, eventVars, apiVars>>

\* the token the daemon's core/obscure returns for a clear password
DaemonObscure(clear) == "obscured(" \o clear \o ")"

\* an _obscure that falls back to the clear password when the call fails
ObscureOrClear(password, outcome) ==
    IF password = "" THEN [raised |-> FALSE, value |-> ""]
    ELSE IF outcome = "ok"
         THEN [raised |-> FALSE, value |-> DaemonObscure(password)]
    ELSE IF outcome = "no_key" THEN [raised |-> FALSE, value |-> ""]
    ELSE [raised |-> FALSE, value |-> password]

\* _obscure: "" for an empty password without a call; else core/obscure is
\* called: its "obscured" field ("" when the reply has none) is returned,
\* and an exception of the call is logged and raised again
Obscure(password, outcome) ==
    IF password = "" THEN [raised |-> FALSE, value |-> ""]
    ELSE IF outcome = "ok"
         THEN [raised |-> FALSE, value |-> DaemonObscure(password)]
    ELSE IF outcome = "no_key" THEN [raised |-> FALSE, value |-> ""]
    ELSE [raised |-> TRUE, value |-> ""]

\* a parameter of the connection string, left out when its value is empty
Param(key, value) == IF value = "" THEN {} ELSE {<<key, value>>}

\* get_fs_string(remote, credential): what it returns or raises, and the
\* parameters of the connection string that carry credentials or the url
FsString(type, credential, url, outcome) ==
    LET obs == Obscure(credential.password, outcome)
        address(params) == [result |-> "address", error |-> "none",
                            params |-> params]
        raises(error) == [result |-> "raised", error |-> error, params |-> {}]
    IN
    IF type = "local" THEN address({})
    ELSE IF type = "s3"
    THEN address(IF credential.present
                 THEN {<<"access_key_id", "AKIA">>}
                      \cup Param("secret_access_key",
                                 credential.secret_access_key)
                 ELSE {<<"env_auth", "false">>})
    ELSE IF type = "http"
    THEN IF url = "" THEN raises("url_required")
         ELSE address({<<"url", url>>})
    ELSE IF type = "webdav"
    THEN IF url = "" THEN raises("url_required")
         ELSE IF credential.present /\ obs.raised THEN raises("obscure")
         ELSE address({<<"url", url>>}
                      \cup IF credential.present
                           THEN {<<"user", "bob">>} \cup Param("pass", obs.value)
                           ELSE {})
    ELSE \* the generic branch: sftp, ftp, smb, and every other type
         IF credential.present /\ obs.raised THEN raises("obscure")
         ELSE address({<<"host", "h">>}
                      \cup IF credential.present
                           THEN {<<"user", "bob">>} \cup Param("pass", obs.value)
                           ELSE {})

\* a get_fs_string call, with the reply of the daemon to core/obscure (the
\* observers follow one call)
GetFsString ==
    /\ lastFs = NoFs /\ lastPaths = NoPaths
    /\ \E type \in RemoteKinds, credential \in Credentials,
          url \in {"", "https://h"}, outcome \in {"ok", "no_key", "fails"} :
        LET r == FsString(type, credential, url, outcome) IN
        lastFs' = [type |-> type,
                   credential |-> IF credential.present
                                  THEN credential.password ELSE "none",
                   url |-> url, obscure |-> outcome,
                   result |-> r.result, error |-> r.error,
                   params |-> r.params]
    /\ lastPaths' = NoPaths
    /\ AddressOnly

\* ------------------------------------------------- run_job: the two addresses
\* the strings of up to n characters
PathsUpTo(n) == UNION {[1..k -> PathChars] : k \in 0..n}

\* str.rstrip('/')
RECURSIVE RStrip(_)
RStrip(str) ==
    IF str # <<>> /\ str[Len(str)] = "/"
    THEN RStrip(SubSeq(str, 1, Len(str) - 1)) ELSE str

\* str.lstrip('/')
RECURSIVE LStrip(_)
LStrip(str) ==
    IF str # <<>> /\ str[1] = "/" THEN LStrip(Tail(str)) ELSE str

\* str.strip('/')
Strip(str) == RStrip(LStrip(str))

\* str.split('/')[-1]: what follows the last separator
RECURSIVE LastPart(_)
LastPart(str) ==
    IF str = <<>> \/ str[Len(str)] = "/" THEN <<>>
    ELSE Append(LastPart(SubSeq(str, 1, Len(str) - 1)), str[Len(str)])

\* f"{a.rstrip('/')}/{b}"
JoinPath(a, b) == RStrip(a) \o <<"/">> \o b

\* a folder name that is the whole source path
FolderNameWhole(source_path) == Strip(source_path)

\* folder_name = job.source_path.strip('/').split('/')[-1]
FolderName(source_path) == LastPart(Strip(source_path))

\* run_job from the two get_fs_string results to the addresses it passes to
\* the daemon: source_path and dest_path are joined on when set, then
\* copy_mode 'contents' gives the source one trailing separator, and
\* copy_mode 'folder' with a source_path joins the folder name, unless
\* empty, onto the destination
BuildAddresses(src_fs, dst_fs, source_path, dest_path, copy_mode) ==
    LET src1 == IF source_path # <<>>
                THEN JoinPath(src_fs, Strip(source_path)) ELSE src_fs
        dst1 == IF dest_path # <<>>
                THEN JoinPath(dst_fs, Strip(dest_path)) ELSE dst_fs
        folder_name == FolderName(source_path)
    IN  [copy_mode |-> copy_mode, src_fs |-> src_fs, dst_fs |-> dst_fs,
         source_path |-> source_path, dest_path |-> dest_path,
         resolved_dst |-> dst1,
         src |-> IF copy_mode = "contents"
                 THEN RStrip(src1) \o <<"/">> ELSE src1,
         dst |-> IF /\ copy_mode = "folder" /\ source_path # <<>>
                    /\ folder_name # <<>>
                 THEN JoinPath(dst1, folder_name) ELSE dst1]

\* run_job builds the addresses of one transfer (the observers follow one
\* call)
ApplyPaths ==
    /\ lastFs = NoFs /\ lastPaths = NoPaths
    /\ \E src_fs \in FsBases, dst_fs \in FsBases,
          source_path \in PathsUpTo(MaxPathLen),
          dest_path \in {<<>>, <<"a">>, <<"a", "/">>},
          copy_mode \in {"folder", "contents", "unset"} :
        lastPaths' = BuildAddresses(src_fs, dst_fs, source_path, dest_path,
                                    copy_mode)
    /\ lastFs' = NoFs
    /\ AddressOnly

NextAddress ==
    \/ GetFsString
    \/ ApplyPaths

SpecAddress == Init /\ [][NextAddress]_vars

\* ------------------------------------------------------- run_job, called again
\* one caller that calls run_job again and again, each call made after the
\* one before has returned or raised, and the monitors of the transfers it
\* dispatches, all within one tick of the clock: whatever was recorded was
\* recorded less than failure_cooldown_seconds ago
NextRetry ==
    \/ \E j \in JobIds : RunJobCall(1, j)
    \/ RunJobAdmit(1)
    \/ RunJobCooldown(1)
    \/ RunJobDispatch(1)
    \/ RunJobSpawn(1)
    \/ \E h \in Handles : MonPoll(h)
    \/ \E h \in Handles : MonFinish(h)
    \/ \E h \in Handles : TransferFinish(h)

SpecRetry == Init /\ [][NextRetry]_vars

\* ------------------------------------------------------------- EventManager
\* everything but the event channel is idle
EventsOnly ==
    UNCHANGED <<job, history, runnerVars, transfer, nextHandle, runLog, call,
                mon, observerVars, pruneVars, browseVars, actionVars,
                schedVars, deleteVars, addressVars, listingVars, apiVars>>

\* list.remove(x)
Remove(list, x) == SelectSeq(list, LAMBDA y : y # x)

\* how subscribe() ends when the client goes away. The response task is
\* cancelled where it is suspended: inside the generator's queue.get(),
\* where "except asyncio.CancelledError" removes the queue; or in the send
\* of a yielded message, and the generator, suspended at its yield, is
\* closed later with GeneratorExit, which that handler does not catch
CloseStream(list, sub, pc) ==
    IF pc = "get" THEN Remove(list, sub) ELSE list

\* subscribe(), run to its first queue.get(): the queue is created and
\* appended to the list
Subscribe(sub) ==
    /\ stream[sub].pc = "off"
    /\ subscribers' = Append(subscribers, sub)
    /\ stream' = [stream EXCEPT ![sub] =
                    [NoStream EXCEPT !.pc = "get", !.from = published]]
    /\ UNCHANGED published
    /\ EventsOnly

\* publish(message): the message is put on every queue of the list, in list
\* order; the queues are unbounded, so no put suspends
Publish ==
    /\ published < MaxMessages
    /\ published' = published + 1
    /\ stream' = [sub \in Subs |->
            IF \E i \in 1..Len(subscribers) : subscribers[i] = sub
            THEN [stream[sub] EXCEPT !.queue = Append(@, published + 1)]
            ELSE stream[sub]]
    /\ UNCHANGED subscribers
    /\ EventsOnly

\* queue.get() returns the oldest message and the generator yields it
Yield(sub) ==
    /\ stream[sub].pc = "get"
    /\ stream[sub].queue # <<>>
    /\ stream' = [stream EXCEPT ![sub].pc = "yield",
                                ![sub].yielded = <<Head(stream[sub].queue)>>,
                                ![sub].queue = Tail(@)]
    /\ UNCHANGED <<subscribers, published>>
    /\ EventsOnly

\* the response has sent the yielded message and asks for the next one
Sent(sub) ==
    /\ stream[sub].pc = "yield"
    /\ stream' = [stream EXCEPT ![sub].pc = "get",
                                ![sub].got = @ \o stream[sub].yielded,
                                ![sub].yielded = <<>>]
    /\ UNCHANGED <<subscribers, published>>
    /\ EventsOnly

\* the client disconnects and the stream ends
Disconnect(sub) ==
    /\ stream[sub].pc \in {"get", "yield"}
    /\ subscribers' = CloseStream(subscribers, sub, stream[sub].pc)
    /\ stream' = [stream EXCEPT ![sub].pc = "closed"]
    /\ UNCHANGED published
    /\ EventsOnly

NextEvents ==
    \/ \E sub \in Subs : Subscribe(sub)
    \/ Publish
    \/ \E sub \in Subs : Yield(sub)
    \/ \E sub \in Subs : Sent(sub)
    \/ \E sub \in Subs : Disconnect(sub)

SpecEvents == Init /\ [][NextEvents]_vars

\* --------------------------------------------------------------- delete_job
\* DELETE /jobs/{job_id}: the Job row is selected; without one the request
\* ends with 404. Nothing else is consulted
DeleteJobSelect(j) ==
    /\ deleter.pc = "idle"
    /\ j \in job_rows
    /\ deleter' = [pc |-> "found", job_id |-> j]
    /\ UNCHANGED <<job, history, runnerVars, transfer, nextHandle, runLog,
                   call, mon, observerVars, job_rows>>
    /\ UNCHANGED <<pruneVars, browseVars, actionVars, schedVars, addressVars,
                   listingVars, eventVars, apiVars>>

\* the row is deleted, the activity logged and the transaction committed
DeleteJobCommit ==
    /\ deleter.pc = "found"
    /\ job_rows' = job_rows \ {deleter.job_id}
    /\ deleter' = [pc |-> "idle", job_id |-> 0]
    /\ UNCHANGED <<job, history, runnerVars, transfer, nextHandle, runLog,
                   call, mon, observerVars>>
    /\ UNCHANGED <<pruneVars, browseVars, actionVars, schedVars, addressVars,
                   listingVars, eventVars, apiVars>>

\* one run of the job and the monitors of its transfers, followed for as
\* long as the Job row exists, next to the delete endpoint
NextDelete ==
    \/ \E j \in JobIds : DeleteJobSelect(j)
    \/ DeleteJobCommit
    \/ /\ job_rows = JobIds
       /\ \/ \E j \in JobIds : RunJobCall(1, j)
          \/ RunJobAdmit(1)
          \/ RunJobCooldown(1)
          \/ RunJobDispatch(1)
          \/ RunJobSpawn(1)
          \/ \E h \in Handles : MonPoll(h)
          \/ \E h \in Handles : MonFinish(h)
          \/ \E h \in Handles : TransferFinish(h)

SpecDelete == Init /\ [][NextDelete]_vars

\* --------------------------------------------------- browse session manager
\* the job runner and the history writers are idle while sessions are used
BrowseOnly ==
    UNCHANGED <<job, history, runnerVars, transfer, nextHandle, runLog, call,
                mon, observerVars, pruneVars, actionVars, schedVars,
                deleteVars, addressVars, listingVars, eventVars, apiVars>>

\* the step is neither a create_session nor a browse call
NoCallSeen == lastCreate' = NoCreate /\ lastBrowse' = NoBrowse

\* a session that expires one tick late
IsExpiredLate(idle) == idle > SessionTimeout + 1

\* BrowseSession.is_expired: elapsed > SESSION_TIMEOUT
IsExpired(idle) == idle > SessionTimeout

\* idle times are counted up to here
IdleHorizon == SessionTimeout + SweepPeriod + 1

\* the session ids in the sessions dict
Registered == {sid \in Sids : sessions[sid].state = "registered"}

\* BrowseSessionManager.start: the flag is set and the cleanup task created,
\* which goes to sleep
StartManager ==
    /\ ~running
    /\ stopper.pc = "off"
    /\ sweeper.pc = "off"
    /\ running' = TRUE
    /\ sweeper' = [NoTask EXCEPT !.pc = "sleep"]
    /\ NoCallSeen
    /\ UNCHANGED <<sessions, profiles, stopper, ender, closes, deleteReqs>>
    /\ BrowseOnly

\* a fallback tried only for the backends that never get a direct connection
NeedsFallbackNoSsh(ssh_conn, remote_type) ==
    remote_type \notin {"sftp", "local"}

\* a fallback provisioned next to an open connection
NeedsFallbackBoth(ssh_conn, remote_type) == remote_type # "local"

\* create_session: "if not session.ssh_conn and remote_type != 'local'"
NeedsFallback(ssh_conn, remote_type) == ~ssh_conn /\ remote_type # "local"

\* create_session, for one fresh session id. The direct SSH connection is
\* tried for an sftp remote when asyncssh is installed and credentials are
\* given; its failure is logged and swallowed. Without a connection, and
\* unless the remote is local, config/create provisions the temporary
\* profile on the daemon: its failure is raised and the session is not
\* registered, whether the request never took effect or the daemon wrote the
\* profile and the reply timed out (RcloneManager.call re-raises the timeout).
\* Otherwise the session is registered and its id returned.
CreateSession(sid) ==
    /\ running
    /\ sessions[sid].state = "unused"
    /\ \A other \in Sids : other < sid => sessions[other].state # "unused"
    /\ \E remote_type \in RemoteTypes, has_asyncssh \in BOOLEAN,
          credential_data \in BOOLEAN, ssh_ok \in BOOLEAN,
          daemon_ok \in BOOLEAN :
        LET try_ssh == remote_type = "sftp" /\ has_asyncssh /\ credential_data
            ssh_conn == try_ssh /\ ssh_ok
            fallback == NeedsFallback(ssh_conn, remote_type)
            seen == [sid |-> sid, remote_type |-> remote_type,
                     try_ssh |-> try_ssh,
                     ssh_ok |-> ssh_conn,
                     daemon_ok |-> fallback /\ daemon_ok,
                     connects |-> IF try_ssh THEN 1 ELSE 0,
                     daemon_calls |-> IF fallback THEN 1 ELSE 0,
                     result |-> "id"]
        IN
        IF fallback /\ ~daemon_ok
        THEN /\ lastCreate' = [seen EXCEPT !.result = "error"]
             /\ sessions' = [sessions EXCEPT ![sid].state = "failed"]
             /\ \/ profiles' = profiles
                \/ profiles' = profiles \cup {sid}
        ELSE /\ lastCreate' = seen
             /\ sessions' = [sessions EXCEPT ![sid] =
                    [state |-> "registered", idle |-> 0,
                     ssh_conn |-> ssh_conn, rclone_remote_name |-> fallback]]
             /\ profiles' = IF fallback THEN profiles \cup {sid} ELSE profiles
    /\ lastBrowse' = NoBrowse
    /\ UNCHANGED <<running, sweeper, stopper, ender, closes, deleteReqs>>
    /\ BrowseOnly

\* browse(session_id): get_session returns the session, touched, when it is
\* registered and not expired; otherwise browse raises "not found or expired"
Browse(sid) ==
    /\ running
    /\ IF sid \in Registered /\ ~IsExpired(sessions[sid].idle)
       THEN /\ sessions' = [sessions EXCEPT ![sid].idle = 0]
            /\ lastBrowse' = [sid |-> sid, result |-> "listing"]
       ELSE /\ lastBrowse' = [sid |-> sid, result |-> "not_found"]
            /\ UNCHANGED sessions
    /\ lastCreate' = NoCreate
    /\ UNCHANGED <<running, profiles, sweeper, stopper, ender, closes,
                   deleteReqs>>
    /\ BrowseOnly

\* end_session up to its first suspension, called by task t for session sid:
\* the session is popped; without one the call returns at once.
\* session.close() closes an open connection and waits for it to close; for
\* a session without a connection the call goes on to config/delete and is
\* suspended in it.
EndSessionBegin(t, sid) ==
    [t EXCEPT !.cur = IF sid \in Registered THEN sid ELSE 0]

\* the sessions dict and the connection after EndSessionBegin
PopSession(sid) ==
    /\ sessions' = [sessions EXCEPT ![sid].state =
                        IF sid \in Registered THEN "ended" ELSE @]
    /\ closes' = IF sid \in Registered /\ sessions[sid].ssh_conn
                 THEN [closes EXCEPT ![sid] = @ + 1] ELSE closes

\* end_session after its suspension, in the task that popped session cur: the
\* deletion of the temporary profile is requested when the session has one;
\* the daemon deletes it, or the call fails, which is logged and swallowed
EndSessionFinish(t) ==
    IF t.cur # 0 /\ sessions[t.cur].rclone_remote_name
    THEN /\ deleteReqs' = [deleteReqs EXCEPT ![t.cur] = @ + 1]
         /\ \/ profiles' = profiles \ {t.cur}
            \/ profiles' = profiles
    ELSE UNCHANGED <<deleteReqs, profiles>>

\* an end_session call made through the API (DELETE of a browse session)
EndSessionCall(sid) ==
    /\ running
    /\ ender.pc = "off"
    /\ ender' = [EndSessionBegin(ender, sid) EXCEPT
                    !.pc = IF sid \in Registered THEN "wait" ELSE "off"]
    /\ PopSession(sid)
    /\ NoCallSeen
    /\ UNCHANGED <<running, profiles, sweeper, stopper, deleteReqs>>
    /\ BrowseOnly

\* the API's end_session call resumes and completes
EndSessionReturn ==
    /\ ender.pc = "wait"
    /\ EndSessionFinish(ender)
    /\ ender' = NoTask
    /\ NoCallSeen
    /\ UNCHANGED <<running, sessions, sweeper, stopper, closes>>
    /\ BrowseOnly

\* a sweep that spares the session of a browse call in flight
ExpiredIdsNotBrowsed ==
    {sid \in Registered : /\ IsExpired(sessions[sid].idle)
                          /\ ~(browser.pc = "wait" /\ browser.sid = sid)}

\* _cleanup_loop: "expired = [sid for sid, session in self.sessions.items()
\* if session.is_expired()]"
ExpiredIds == {sid \in Registered : IsExpired(sessions[sid].idle)}

\* _cleanup_loop: the sleep is over; the expired sessions are listed and
\* end_session is called for the first of them
SweepWake ==
    /\ sweeper.pc = "sleep"
    /\ sweeper.slept = SweepPeriod
    /\ LET expired == ExpiredIds
       IN  IF expired = {}
           THEN /\ sweeper' = [NoTask EXCEPT !.pc = "sleep"]
                /\ UNCHANGED <<sessions, closes>>
           ELSE \E sid \in expired :
                /\ sweeper' = [EndSessionBegin(sweeper, sid) EXCEPT
                                  !.pc = "wait", !.slept = 0,
                                  !.pending = expired \ {sid}]
                /\ PopSession(sid)
    /\ NoCallSeen
    /\ UNCHANGED <<running, profiles, stopper, ender, deleteReqs>>
    /\ BrowseOnly

\* the cleanup loop resumes from an end_session: that call completes, and
\* end_session is called for the next expired id (a no-op for an id no
\* longer registered); with the list done the loop goes back to sleep
SweepContinue ==
    /\ sweeper.pc = "wait"
    /\ EndSessionFinish(sweeper)
    /\ IF sweeper.pending = {}
       THEN /\ sweeper' = [NoTask EXCEPT !.pc = "sleep"]
            /\ UNCHANGED <<sessions, closes>>
       ELSE \E sid \in sweeper.pending :
            /\ sweeper' = [EndSessionBegin(sweeper, sid) EXCEPT
                              !.pending = sweeper.pending \ {sid}]
            /\ PopSession(sid)
    /\ NoCallSeen
    /\ UNCHANGED <<running, stopper, ender>>
    /\ BrowseOnly

\* stop(): the flag is cleared and the cleanup task cancelled, wherever it is
\* suspended: in its sleep, or inside an end_session it has begun, which the
\* CancelledError leaves at once (the loop breaks on it). Then end_session
\* is called for each session id still registered
StopManager ==
    /\ running
    /\ stopper.pc = "off"
    /\ running' = FALSE
    /\ sweeper' = NoTask
    /\ IF Registered = {}
       THEN /\ stopper' = [NoTask EXCEPT !.pc = "stopped"]
            /\ UNCHANGED <<sessions, closes>>
       ELSE \E sid \in Registered :
            /\ stopper' = [EndSessionBegin(stopper, sid) EXCEPT
                              !.pc = "wait", !.pending = Registered \ {sid}]
            /\ PopSession(sid)
    /\ NoCallSeen
    /\ UNCHANGED <<profiles, ender, deleteReqs>>
    /\ BrowseOnly

\* stop() resumes from an end_session and goes on to the next session id
StopContinue ==
    /\ stopper.pc = "wait"
    /\ EndSessionFinish(stopper)
    /\ IF stopper.pending = {}
       THEN /\ stopper' = [NoTask EXCEPT !.pc = "stopped"]
            /\ UNCHANGED <<sessions, closes>>
       ELSE \E sid \in stopper.pending :
            /\ stopper' = [EndSessionBegin(stopper, sid) EXCEPT
                              !.pending = stopper.pending \ {sid}]
            /\ PopSession(sid)
    /\ NoCallSeen
    /\ UNCHANGED <<running, sweeper, ender>>
    /\ BrowseOnly

\* time passes while the cleanup loop sleeps: every session is idle one tick
\* longer (the awaited calls of a sweep take no time on this scale)
BrowseTick ==
    /\ running
    /\ sweeper.pc = "sleep"
    /\ sweeper.slept < SweepPeriod
    /\ sweeper' = [sweeper EXCEPT !.slept = @ + 1]
    /\ sessions' = [sid \in Sids |->
            IF sid \in Registered /\ sessions[sid].idle < IdleHorizon
            THEN [sessions[sid] EXCEPT !.idle = @ + 1]
            ELSE sessions[sid]]
    /\ NoCallSeen
    /\ UNCHANGED <<running, profiles, stopper, ender, closes, deleteReqs>>
    /\ BrowseOnly

NextBrowse ==
    \/ StartManager
    \/ \E sid \in Sids : CreateSession(sid)
    \/ \E sid \in Sids : Browse(sid)
    \/ \E sid \in Sids : EndSessionCall(sid)
    \/ EndSessionReturn
    \/ SweepWake
    \/ SweepContinue
    \/ StopManager
    \/ StopContinue
    \/ BrowseTick

SpecBrowse == Init /\ [][NextBrowse]_vars

\* ------------------------------------------------------- browse: the listing
\* session.remote_type == "local", read off the session record: create_session
\* registers a session without a connection and without a temporary profile
\* for a local remote and for no other
IsLocal(session) == ~session.ssh_conn /\ ~session.rclone_remote_name

\* a browse that has no branch for the local filesystem
StrategyNoLocal(session) ==
    IF session.ssh_conn THEN "ssh" ELSE "rclone"

\* browse: "if session.ssh_conn: return await _browse_ssh_ls", then
\* "if session.remote_type == 'local': return await _browse_local", then
\* "return await _browse_rclone"
Strategy(session) ==
    IF session.ssh_conn THEN "ssh"
    ELSE IF IsLocal(session) THEN "local"
    ELSE "rclone"

\* browse(session_id) up to its first suspension. get_session returns the
\* session, touched, when it is registered and not expired; otherwise browse
\* raises "not found or expired". _browse_local enumerates the directory
\* without suspending and returns the entries or raises; _browse_rclone
\* raises at once for a session without a profile; otherwise the call is
\* suspended in the ls command on the connection or in operations/list
BrowseCall(sid) ==
    /\ running
    /\ browser.pc = "off"
    /\ IF sid \in Registered /\ ~IsExpired(sessions[sid].idle)
       THEN /\ sessions' = [sessions EXCEPT ![sid].idle = 0]
            /\ LET strategy == Strategy(sessions[sid])
                   entered == [NoListing EXCEPT !.sid = sid,
                                                !.used = {strategy}]
               IN  IF strategy = "local"
                   THEN \E result \in {"listing", "error"} :
                           browser' = [entered EXCEPT !.result = result]
                   ELSE IF strategy = "rclone"
                           /\ ~sessions[sid].rclone_remote_name
                   THEN browser' = [entered EXCEPT !.result = "no_remote"]
                   ELSE browser' = [entered EXCEPT !.pc = "wait"]
       ELSE /\ browser' = [NoListing EXCEPT !.sid = sid,
                                            !.result = "not_found"]
            /\ UNCHANGED sessions
    /\ NoCallSeen
    /\ UNCHANGED <<running, profiles, sweeper, stopper, ender, closes,
                   deleteReqs>>
    /\ UNCHANGED <<job, history, runnerVars, transfer, nextHandle, runLog,
                   call, mon, observerVars, pruneVars, actionVars, schedVars,
                   deleteVars, addressVars, eventVars, apiVars>>

\* how a suspended listing can end. _browse_ssh_ls: the entries; or the ls
\* command exits non-zero (asyncssh.ProcessError), which is raised as
\* ValueError("Cannot browse ..."); or any other exception, re-raised as it
\* is. _browse_rclone: the list, or the exception of the daemon call
ListingResults(strategy) ==
    IF strategy = "ssh" THEN {"listing", "cannot_browse", "error"}
    ELSE {"listing", "error"}

\* the exception class behind a result of browse ("none": it returned)
Raised(result) ==
    CASE result \in {"not_found", "cannot_browse", "no_remote"} -> "ValueError"
      [] result = "error" -> "Exception"
      [] OTHER -> "none"

\* browse_with_session: the items are returned; "except ValueError" answers
\* 404 and "except Exception" 500
HttpStatus(result) ==
    CASE Raised(result) = "ValueError" -> 404
      [] Raised(result) = "Exception" -> 500
      [] OTHER -> 200

\* the suspended browse call resumes: the listing is returned, or the
\* command or the daemon call has failed and the error is raised to the
\* caller, whatever has become of the session meanwhile
BrowseReturn ==
    /\ browser.pc = "wait"
    /\ \E strategy \in browser.used :
       \E result \in ListingResults(strategy) :
            browser' = [browser EXCEPT !.pc = "off", !.result = result]
    /\ UNCHANGED browseVars
    /\ UNCHANGED <<job, history, runnerVars, transfer, nextHandle, runLog,
                   call, mon, observerVars, pruneVars, actionVars, schedVars,
                   deleteVars, addressVars, eventVars, apiVars>>

NextListing ==
    \/ StartManager
    \/ \E sid \in Sids : CreateSession(sid)
    \/ \E sid \in Sids : BrowseCall(sid)
    \/ BrowseReturn
    \/ \E sid \in Sids : EndSessionCall(sid)
    \/ EndSessionReturn
    \/ SweepWake
    \/ SweepContinue
    \/ StopManager
    \/ StopContinue
    \/ BrowseTick

SpecListing == Init /\ [][NextListing]_vars

\* ------------------------------------------------------- the action pipeline
\* only the action pipeline moves
ActionsOnly ==
    UNCHANGED <<job, history, runnerVars, transfer, nextHandle, runLog, call,
                mon, observerVars, pruneVars, browseVars, schedVars,
                deleteVars, addressVars, listingVars, eventVars, apiVars>>

\* a JobAction row is attached to the job (the job's actions are edited while
\* no run is in progress)
AddJobAction(id) ==
    /\ pipeline.pc = "idle"
    /\ ~job_actions[id].present
    /\ \A other \in JobActionIds : other < id => job_actions[other].present
    /\ \E trigger \in Triggers, order \in 0..MaxOrder, has_action \in BOOLEAN :
        job_actions' = [job_actions EXCEPT ![id] =
            [present |-> TRUE, trigger |-> trigger, order |-> order,
             has_action |-> has_action]]
    /\ UNCHANGED <<act, pipeline>>
    /\ ActionsOnly

\* the results of the select: the rows of the trigger, ordered by order (rows
\* of equal order in whichever order the database returns them)
Fetch(trigger) ==
    LET ids == {id \in JobActionIds : /\ job_actions[id].present
                                      /\ job_actions[id].trigger = trigger}
        n == Cardinality(ids)
    IN  {q \in [1..n -> ids] :
            /\ \A i, j \in 1..n : i # j => q[i] # q[j]
            /\ \A i, j \in 1..n :
                i < j => job_actions[q[i]].order <= job_actions[q[j]].order}

\* _execute_actions is entered: the rows are fetched; a failing query is
\* caught by the outer handler, logged, and the call returns
ExecuteActions(trigger) ==
    \/ \E q \in Fetch(trigger) :
        act' = [NoAct EXCEPT !.pc = "running", !.trigger = trigger,
                             !.queue = q]
    \/ act' = [NoAct EXCEPT !.pc = "unfetched", !.trigger = trigger]

\* a loop that stops at the first action that raised
RestAfterAbort(queue, failed) == IF failed THEN <<>> ELSE Tail(queue)

\* the for loop of _execute_actions goes on to the next row, whether the
\* action raised or not
RestAfter(queue, failed) == Tail(queue)

\* an action's exception that is raised again to the caller
EscalatesToCaller(failed) == failed

\* "except Exception as e: logger.error(...)": the exception of an action is
\* logged and not raised again
Escalates(failed) == FALSE

\* _execute_actions has returned to its caller
ActionsReturned(a) == a.pc = "unfetched" \/ (a.pc = "running" /\ a.queue = <<>>)

\* run_job up to the pre actions: the job and its remotes are loaded and
\* _execute_actions is called for the pre trigger
PipelineStart ==
    /\ pipeline.pc = "idle"
    /\ act.pc = "idle"
    /\ \E id \in JobActionIds : job_actions[id].present
    /\ pipeline' = [NoPipeline EXCEPT !.pc = "pre"]
    /\ ExecuteActions("pre")
    /\ UNCHANGED job_actions
    /\ ActionsOnly

\* one pass of the for loop: a row without Action is skipped; otherwise
\* _process_action runs the action, which returns or raises; an exception
\* is logged and the loop goes on
ActionStep ==
    /\ act.pc = "running"
    /\ act.queue # <<>>
    /\ LET id == Head(act.queue) IN
       IF ~job_actions[id].has_action
       THEN /\ act' = [act EXCEPT !.queue = Tail(@)]
            /\ UNCHANGED pipeline
       ELSE \E failed \in BOOLEAN :
            /\ act' = [act EXCEPT
                    !.pc = IF Escalates(failed) THEN "raised" ELSE @,
                    !.queue = RestAfter(@, failed),
                    !.ran = Append(@, id),
                    !.errors = IF failed THEN @ \cup {id} ELSE @]
            /\ pipeline' = [pipeline EXCEPT !.failed_in =
                    IF failed THEN @ \cup {act.trigger} ELSE @]
    /\ UNCHANGED job_actions
    /\ ActionsOnly

\* run_job after the pre actions: the transfer is dispatched. An exception
\* out of _execute_actions would be caught by run_job's handler: a failed
\* row is written and no transfer dispatched
PreReturn ==
    /\ pipeline.pc = "pre"
    /\ ActionsReturned(act) \/ act.pc = "raised"
    /\ pipeline' = IF act.pc = "raised"
                   THEN [pipeline EXCEPT !.pc = "done", !.history = "failed",
                                         !.last_status = "failed",
                                         !.event = "failed"]
                   ELSE [pipeline EXCEPT !.pc = "monitor",
                                         !.dispatched = TRUE]
    /\ act' = [act EXCEPT !.pc = "idle"]
    /\ UNCHANGED job_actions
    /\ ActionsOnly

\* _monitor_job sees the transfer finished: the final status is written to
\* the job and to history. Building the action context reads the stats
\* local, unbound when this is the first poll: the NameError ends the
\* monitor. Otherwise _execute_actions is called for post_always
MonitorFinished ==
    /\ pipeline.pc = "monitor"
    /\ \E final_status \in {"success", "failed"}, stats_bound \in BOOLEAN :
        /\ pipeline' = [pipeline EXCEPT
                !.pc = IF stats_bound THEN "post_always" ELSE "done",
                !.final_status = final_status,
                !.history = final_status,
                !.last_status = final_status]
        /\ IF stats_bound THEN ExecuteActions("post_always")
                          ELSE UNCHANGED act
    /\ UNCHANGED job_actions
    /\ ActionsOnly

\* the post_always actions are through: _execute_actions is called for
\* post_success or post_fail, by the final status. An exception out of
\* _execute_actions would end the monitor loop
PostAlwaysReturn ==
    /\ pipeline.pc = "post_always"
    /\ ActionsReturned(act) \/ act.pc = "raised"
    /\ IF act.pc = "raised"
       THEN /\ pipeline' = [pipeline EXCEPT !.pc = "done"]
            /\ act' = [act EXCEPT !.pc = "idle"]
       ELSE /\ pipeline' = [pipeline EXCEPT !.pc = "post_status"]
            /\ ExecuteActions(IF pipeline.final_status = "success"
                              THEN "post_success" ELSE "post_fail")
    /\ UNCHANGED job_actions
    /\ ActionsOnly

\* the last post actions are through: the terminal job_update event is
\* published with the final status
PostStatusReturn ==
    /\ pipeline.pc = "post_status"
    /\ ActionsReturned(act) \/ act.pc = "raised"
    /\ pipeline' = IF act.pc = "raised"
                   THEN [pipeline EXCEPT !.pc = "done"]
                   ELSE [pipeline EXCEPT !.pc = "done",
                                         !.event = pipeline.final_status]
    /\ act' = [act EXCEPT !.pc = "idle"]
    /\ UNCHANGED job_actions
    /\ ActionsOnly

NextActions ==
    \/ \E id \in JobActionIds : AddJobAction(id)
    \/ PipelineStart
    \/ ActionStep
    \/ PreReturn
    \/ MonitorFinished
    \/ PostAlwaysReturn
    \/ PostStatusReturn

SpecActions == Init /\ [][NextActions]_vars

\* -------------------------------------------------------------- the scheduler
\* only the scheduler moves
SchedulerOnly ==
    UNCHANGED <<job, history, runnerVars, transfer, nextHandle, runLog, call,
                mon, observerVars, pruneVars, browseVars, actionVars,
                deleteVars, addressVars, listingVars, eventVars, apiVars>>

\* the interval conversions of sync_scheduler_jobs
CronOfMinutes(minutes) == "*/" \o ToString(minutes) \o " * * * *"
CronOfHours(hours) == "0 */" \o ToString(hours) \o " * * *"

\* the strings CronTrigger.from_crontab accepts, among those it is given
\* here: five fields, and a step no larger than the range of its field
\* (minutes 0..59, hours 0..23)
ValidCrons ==
    {"0 * * * *"} \cup {CronOfMinutes(m) : m \in 1..59}
                  \cup {CronOfHours(h) : h \in 1..23}

\* CronTrigger.from_crontab accepts the string
IsCron(cron_expression) == cron_expression \in ValidCrons

\* the job ids that have a trigger
Scheduled == {t.id : t \in store}

\* a store that keeps the prior trigger next to the new one
AddJobKeeping(jobs, id, trigger) == jobs \cup {[id |-> id, trigger |-> trigger]}

\* scheduler.add_job(..., id=str(job_id), replace_existing=True): the job
\* takes the place of the one stored under the same id
AddJob(jobs, id, trigger) ==
    {t \in jobs : t.id # id} \cup {[id |-> id, trigger |-> trigger]}

\* add_scheduler_job: the trigger is built from the cron expression and the
\* job added under the job id; an exception (a string that is no cron
\* expression) is logged and swallowed
AddSchedulerJob(job_id, cron_expression) ==
    /\ store' = IF IsCron(cron_expression)
                THEN AddJob(store, job_id, cron_expression)
                ELSE store
    /\ lastSched' = [op |-> "add", job_id |-> job_id,
                     cron_expression |-> cron_expression,
                     had_trigger |-> job_id \in Scheduled, raised |-> FALSE]
    /\ lastSync' = NoSync
    /\ SchedulerOnly

\* remove_scheduler_job: scheduler.remove_job raises a lookup error for an
\* id it does not hold, and the handler ignores every exception
RemoveSchedulerJob(job_id) ==
    /\ store' = {t \in store : t.id # job_id}
    /\ lastSched' = [op |-> "remove", job_id |-> job_id,
                     cron_expression |-> "",
                     had_trigger |-> job_id \in Scheduled, raised |-> FALSE]
    /\ lastSync' = NoSync
    /\ SchedulerOnly

NextScheduler ==
    \/ \E job_id \in SchedJobIds, cron_expression \in Schedules :
            AddSchedulerJob(job_id, cron_expression)
    \/ \E job_id \in SchedJobIds : RemoveSchedulerJob(job_id)

SpecScheduler == Init /\ [][NextScheduler]_vars

\* the ScheduleTemplate rows, by name: schedule_type and config
Templates ==
    [name \in {"Hourly", "Every5", "Every90", "Every2h", "Zero", "Weekly"} |->
        CASE name = "Hourly" ->
                [schedule_type |-> "cron", cron |-> "0 * * * *",
                 minutes |-> 0, hours |-> 0]
          [] name = "Every5" ->
                [schedule_type |-> "interval", cron |-> "",
                 minutes |-> 5, hours |-> 0]
          [] name = "Every90" ->
                [schedule_type |-> "interval", cron |-> "",
                 minutes |-> 90, hours |-> 0]
          [] name = "Every2h" ->
                [schedule_type |-> "interval", cron |-> "",
                 minutes |-> 0, hours |-> 2]
          [] name = "Zero" ->
                [schedule_type |-> "interval", cron |-> "",
                 minutes |-> 0, hours |-> 0]
          [] name = "Weekly" ->
                [schedule_type |-> "calendar", cron |-> "",
                 minutes |-> 0, hours |-> 0]]

\* the values of Job.schedule: empty, manual, a cron expression, the name
\* of a template, the name of a template that no longer exists
JobSchedules == {"", "Manual", "0 * * * *", "Gone"} \cup DOMAIN Templates

\* the Job rows: enabled with any schedule, or disabled with a schedule that
\* would resolve
JobRows ==
    [enabled : {TRUE}, schedule : JobSchedules]
        \cup {[enabled |-> FALSE, schedule |-> "0 * * * *"]}

\* the cron expression sync_scheduler_jobs resolves a schedule to; "" when
\* it logs a warning and goes on to the next job
ResolveCron(schedule) ==
    IF schedule \notin DOMAIN Templates THEN schedule
    ELSE LET template == Templates[schedule] IN
         IF template.schedule_type = "cron" /\ template.cron # ""
         THEN template.cron
         ELSE IF template.schedule_type = "interval"
         THEN IF template.minutes > 0 THEN CronOfMinutes(template.minutes)
              ELSE IF template.hours > 0 THEN CronOfHours(template.hours)
              ELSE ""
         ELSE ""

\* the loop of sync_scheduler_jobs over the enabled jobs it has loaded, in
\* the order of the list: add_scheduler_job for each job whose schedule is
\* set, is not "Manual" and resolves
RECURSIVE SyncJobs(_, _, _)
SyncJobs(jobs, ids, acc) ==
    IF ids = {} THEN acc
    ELSE LET id == CHOOSE i \in ids : \A k \in ids : i <= k
             row == jobs[id]
             cron == ResolveCron(row.schedule)
             add == /\ row.enabled
                    /\ row.schedule # "" /\ row.schedule # "Manual"
                    /\ cron # ""
                    /\ IsCron(cron)
         IN  SyncJobs(jobs, ids \ {id},
                      IF add THEN AddJob(acc, id, cron) ELSE acc)

\* sync_scheduler_jobs, from its two queries on: the enabled jobs and the
\* templates are loaded, and the loop runs without suspension
SyncSchedulerJobs ==
    /\ \E jobs \in [SyncJobIds -> JobRows] :
        /\ store' = SyncJobs(jobs, SyncJobIds, store)
        /\ lastSync' = [op |-> "sync", jobs |-> jobs]
    /\ lastSched' = NoSched
    /\ SchedulerOnly

NextSync ==
    \/ SyncSchedulerJobs
    \/ \E job_id \in SyncJobIds : RemoveSchedulerJob(job_id)

SpecSync == Init /\ [][NextSync]_vars

\* ---------------------------------------------- the job endpoints' triggers
\* the values of Job.schedule the endpoints are given: manual, a cron
\* expression, the name of a schedule template
ApiSchedules == {"Manual", "0 * * * *", "Hourly"}

\* the endpoint's own step: the runner, the sessions and the rest are idle
ApiOnly ==
    /\ lastSched' = NoSched
    /\ lastSync' = NoSync
    /\ UNCHANGED <<job, history, runnerVars, transfer, nextHandle, runLog,
                   call, mon, observerVars, pruneVars, browseVars, actionVars,
                   deleteVars, addressVars, listingVars, eventVars>>

\* POST /jobs: the row is inserted, enabled by the column's default; the
\* scheduler is not called
CreateJob(id) ==
    /\ ~job_table[id].present
    /\ \E schedule \in ApiSchedules :
        job_table' = [job_table EXCEPT ![id] =
            [present |-> TRUE, enabled |-> TRUE, schedule |-> schedule]]
    /\ UNCHANGED store
    /\ ApiOnly

\* PATCH /jobs/{job_id} with the fields of update_data among schedule and
\* enabled (has_schedule, has_enabled: the field is in the payload). The
\* fields are set; when either is given, add_scheduler_job is called with
\* Job.schedule as it is stored for an enabled job with a schedule other
\* than "Manual", and remove_scheduler_job otherwise
PatchJob(id) ==
    /\ job_table[id].present
    /\ \E has_schedule \in BOOLEAN, has_enabled \in BOOLEAN,
          schedule \in ApiSchedules, enabled \in BOOLEAN :
        LET db_job == [present |-> TRUE,
                       enabled |-> IF has_enabled THEN enabled
                                   ELSE job_table[id].enabled,
                       schedule |-> IF has_schedule THEN schedule
                                    ELSE job_table[id].schedule]
        IN  /\ job_table' = [job_table EXCEPT ![id] = db_job]
            /\ store' =
                 IF has_schedule \/ has_enabled
                 THEN IF /\ db_job.enabled
                         /\ db_job.schedule # "" /\ db_job.schedule # "Manual"
                      THEN IF IsCron(db_job.schedule)
                           THEN AddJob(store, id, db_job.schedule)
                           ELSE store
                      ELSE {t \in store : t.id # id}
                 ELSE store
    /\ ApiOnly

\* PUT /jobs/{job_id}: the fields of the payload, schedule among them, are
\* stored ("logic to update scheduler would be needed here")
UpdateJob(id) ==
    /\ job_table[id].present
    /\ \E schedule \in ApiSchedules :
        job_table' = [job_table EXCEPT ![id].schedule = schedule]
    /\ UNCHANGED store
    /\ ApiOnly

\* POST /jobs/{job_id}/toggle: Job.enabled is set
ToggleJob(id) ==
    /\ job_table[id].present
    /\ \E enabled \in BOOLEAN :
        job_table' = [job_table EXCEPT ![id].enabled = enabled]
    /\ UNCHANGED store
    /\ ApiOnly

\* DELETE /jobs/{job_id}: the row is deleted
DeleteJob(id) ==
    /\ job_table[id].present
    /\ job_table' = [job_table EXCEPT ![id] = NoJobRow]
    /\ UNCHANGED store
    /\ ApiOnly

\* the application starts again: the triggers are still in the job store
\* (jobs.sqlite) and sync_scheduler_jobs adds those of the enabled jobs
Startup ==
    /\ store' = SyncJobs([id \in SyncJobIds |->
                            [enabled |-> job_table[id].present
                                          /\ job_table[id].enabled,
                             schedule |-> job_table[id].schedule]],
                         SyncJobIds, store)
    /\ UNCHANGED job_table
    /\ ApiOnly

NextApi ==
    \/ \E id \in SyncJobIds : CreateJob(id)
    \/ \E id \in SyncJobIds : PatchJob(id)
    \/ \E id \in SyncJobIds : UpdateJob(id)
    \/ \E id \in SyncJobIds : ToggleJob(id)
    \/ \E id \in SyncJobIds : DeleteJob(id)
    \/ Startup

SpecApi == Init /\ [][NextApi]_vars

\* ------------------------------------------- _log_history / _prune_history
\* the job runner is idle while the history table is written
RunnerIdle ==
    UNCHANGED <<job, history, runnerVars, transfer, nextHandle, runLog, call,
                mon, observerVars, browseVars, actionVars, schedVars,
                deleteVars, addressVars, listingVars, eventVars, apiVars>>

\* the ids a query for the n oldest rows returns (order by timestamp, limit n)
Oldest(table, n) ==
    {r \in table : Cardinality({q \in table : q < r}) < n}

\* _log_history: the row is added and committed; _prune_history is entered
\* and suspends on the max_history_entries setting and the count query
LogInsert(w) ==
    /\ logger[w].pc = "idle"
    /\ nextRowId <= MaxRows
    /\ rows' = rows \cup {nextRowId}
    /\ nextRowId' = nextRowId + 1
    /\ logger' = [logger EXCEPT ![w].pc = "count"]
    /\ RunnerIdle

\* _prune_history: total_count is read; at or under the ceiling the call is
\* over, above it entries_to_delete is computed and the id query awaited
PruneCount(w) ==
    /\ logger[w].pc = "count"
    /\ LET total_count == Cardinality(rows) IN
        logger' = [logger EXCEPT ![w] =
            IF total_count > MaxHistoryEntries
            THEN [pc |-> "select",
                  entries_to_delete |-> total_count - MaxHistoryEntries,
                  ids_to_delete |-> {}]
            ELSE IdleLogger]
    /\ UNCHANGED <<rows, nextRowId>>
    /\ RunnerIdle

\* _prune_history: the ids of the oldest entries_to_delete rows are read;
\* with none the call is over, otherwise the delete is awaited
PruneSelect(w) ==
    /\ logger[w].pc = "select"
    /\ LET ids == Oldest(rows, logger[w].entries_to_delete) IN
        logger' = [logger EXCEPT ![w] =
            IF ids = {} THEN IdleLogger
            ELSE [pc |-> "delete", entries_to_delete |-> 0,
                  ids_to_delete |-> ids]]
    /\ UNCHANGED <<rows, nextRowId>>
    /\ RunnerIdle

\* _prune_history: the rows with the selected ids are deleted and the
\* deletion committed
PruneDelete(w) ==
    /\ logger[w].pc = "delete"
    /\ rows' = rows \ logger[w].ids_to_delete
    /\ logger' = [logger EXCEPT ![w] = IdleLogger]
    /\ UNCHANGED nextRowId
    /\ RunnerIdle

NextPrune ==
    \/ \E w \in Loggers : LogInsert(w)
    \/ \E w \in Loggers : PruneCount(w)
    \/ \E w \in Loggers : PruneSelect(w)
    \/ \E w \in Loggers : PruneDelete(w)

SpecPrune == Init /\ [][NextPrune]_vars

\* --------------------------------------------------------------- properties
\* call c takes the step of run_job that holds the concurrency checks
AtConcurrencyCheck(c) == call[c].pc = "load" /\ call'[c].pc # "load"

\* call c takes the step of run_job that holds the cooldown check
AtCooldownCheck(c) == call[c].pc = "cooldown" /\ call'[c].pc # "cooldown"

\* the step dispatches no transfer and writes no history row
NoDispatchNoRow ==
    /\ transfer' = transfer
    /\ nextHandle' = nextHandle
    /\ history' = history

\* the limit the specification gives a job: max_concurrent_runs, where a
\* stored 0 (or null) stands for 1
PermittedRuns(cfg) ==
    IF cfg.max_concurrent_runs >= 1 THEN cfg.max_concurrent_runs ELSE 1

\* the number of transfers of a job permitted in flight
LimitOf(cfg) == IF cfg.allow_concurrent_runs THEN PermittedRuns(cfg) ELSE 1

\* the number of history writes made for run h
HistoryWrites(h) ==
    Cardinality({i \in 1..Len(runLog[h]) : runLog[h][i] = "history"})

\* the monitor task of run h has ended
MonitorEnded(h) == mon[h].pc \in {"done", "dead"}

Terminal == {"job_update_success", "job_update_failed"}

\* C1: for a job with allow_concurrent_runs = false whose active-instance
\* count is 1, a run_job call that comes to its concurrency check returns
\* there without raising (a skip): no transfer is dispatched, no history row
\* is written, and the active-instance count stays 1.
C1_SkipWhileActive ==
    [][\A c \in Calls :
        (/\ AtConcurrencyCheck(c)
         /\ ~job[call[c].job].cfg.allow_concurrent_runs
         /\ active_job_counts[call[c].job] = 1)
        => /\ call'[c].pc = "skipped"
           /\ NoDispatchNoRow
           /\ active_job_counts'[call[c].job] = 1]_vars

\* a call was skipped for a non-concurrent job whose one run is being
\* monitored; no failure ever opened a cooldown window
C1_Witness ==
    \E c \in Calls :
        /\ call[c].pc = "skipped"
        /\ ~job[call[c].job].cfg.allow_concurrent_runs
        /\ active_job_counts[call[c].job] = 1
        /\ mon[1].pc = "poll"
        /\ failed_ago[call[c].job] = None
        /\ history = <<>>

\* C2 (amended): for a job with allow_concurrent_runs = true and
\* max_concurrent_runs = N >= 1 (a stored 0 counts as 1), a run_job call whose
\* concurrency check finds an active-instance count below N passes the check,
\* and one that finds the count at N or above is skipped: no dispatch, no
\* history row, the count unchanged.
C2_AdmitsUpToLimit ==
    [][\A c \in Calls :
        (/\ AtConcurrencyCheck(c)
         /\ job[call[c].job].cfg.allow_concurrent_runs)
        => LET j == call[c].job
               n == PermittedRuns(job[j].cfg)
           IN  /\ active_job_counts[j] < n => call'[c].pc = "cooldown"
               /\ active_job_counts[j] >= n =>
                    /\ call'[c].pc = "skipped"
                    /\ NoDispatchNoRow
                    /\ active_job_counts' = active_job_counts]_vars

\* two runs of a job with limit 2 are being monitored and a third call was
\* skipped
C2_Witness ==
    \E c \in Calls :
        /\ call[c].pc = "skipped"
        /\ job[call[c].job].cfg.allow_concurrent_runs
        /\ job[call[c].job].cfg.max_concurrent_runs = 2
        /\ active_job_counts[call[c].job] = 2
        /\ mon[1].pc = "poll" /\ mon[2].pc = "poll"
        /\ failed_ago[call[c].job] = None

\* C2 as stated, the limit being the stored max_concurrent_runs whatever its
\* value: calls pass the check while the count is below it and are skipped
\* once the count has reached it.
C2_AsStated ==
    [][\A c \in Calls :
        (/\ AtConcurrencyCheck(c)
         /\ job[call[c].job].cfg.allow_concurrent_runs)
        => LET j == call[c].job
               n == job[j].cfg.max_concurrent_runs
           IN  /\ active_job_counts[j] < n => call'[c].pc = "cooldown"
               /\ active_job_counts[j] >= n =>
                    /\ call'[c].pc = "skipped"
                    /\ NoDispatchNoRow
                    /\ active_job_counts' = active_job_counts]_vars

\* another run_job call of the same job has passed its concurrency check and
\* has not yet incremented the counter
AdmittedNotCounted(c) ==
    \E d \in Calls \ {c} :
        /\ call[d].job = call[c].job
        /\ call[d].pc \in {"cooldown", "dispatch", "committed"}

\* C3: admission is not atomic. A run_job call that performs its concurrency
\* check after another call of the same job has passed its own and before
\* that call increments the counter passes the check as well, whenever the
\* counter is below the job's limit; so the transfers of a job in flight can
\* exceed the limit (the witness).
C3_OverlappingCallsBothAdmitted ==
    [][\A c \in Calls :
        (/\ AtConcurrencyCheck(c)
         /\ AdmittedNotCounted(c)
         /\ active_job_counts[call[c].job] < LimitOf(job[call[c].job].cfg))
        => call'[c].pc = "cooldown"]_vars

\* two transfers of a job limited to one are running and counted
C3_Witness ==
    \E j \in JobIds :
        /\ LimitOf(job[j].cfg) = 1
        /\ active_job_counts[j] = 2
        /\ \A h \in Handles :
              mon[h].job = j /\ mon[h].pc = "poll" /\ transfer[h] = "running"

\* C4 (amended): a run_job call whose cooldown check is made less than
\* failure_cooldown_seconds after a monitor last recorded a failed run of the
\* job, no run of the job having been recorded successful since, is skipped
\* (no dispatch, no history row, no exception); a call whose check is made
\* when no failure was recorded or the window has elapsed passes the check
\* and proceeds to dispatch.
C4_CooldownWindow ==
    [][\A c \in Calls :
        AtCooldownCheck(c)
        => LET j == call[c].job
           IN  /\ (/\ failed_ago[j] # None
                    /\ failed_ago[j] < FailureCooldown
                    /\ ~succeeded_since[j])
                   => call'[c].pc = "skipped" /\ NoDispatchNoRow
               /\ (failed_ago[j] = None \/ failed_ago[j] >= FailureCooldown)
                   => call'[c].pc = "dispatch"]_vars

\* the job's only run so far was recorded failed, the window is open, and a
\* call was skipped although the job's limit of 2 was never reached
C4_Witness ==
    \E c \in Calls :
        /\ call[c].pc = "skipped"
        /\ job[call[c].job].cfg.max_concurrent_runs = 2
        /\ nextHandle = 2
        /\ mon[1].pc = "done"
        /\ failed_ago[call[c].job] # None
        /\ failed_ago[call[c].job] < FailureCooldown
        /\ ~succeeded_since[call[c].job]

\* C4 as stated: after a monitor records a run of the job as failed, every
\* call whose cooldown check is made less than failure_cooldown_seconds later
\* is skipped, whatever was recorded since.
C4_AsStated ==
    [][\A c \in Calls :
        (/\ AtCooldownCheck(c)
         /\ failed_ago[call[c].job] # None
         /\ failed_ago[call[c].job] < FailureCooldown)
        => call'[c].pc = "skipped" /\ NoDispatchNoRow]_vars

\* C5: every dispatched transfer gets exactly one history row, carrying its
\* job's id and a start time (so that completed_at >= started_at): once the
\* monitor of a run has ended, one history write was made for the run, and
\* the row of the run has its job id and a start time.
C5_OneRowPerDispatch ==
    \A h \in Handles :
        MonitorEnded(h)
        => /\ HistoryWrites(h) = 1
           /\ \A i \in 1..Len(history) :
                history[i].run = h
                => history[i].job_id = mon[h].job /\ history[i].started_at # 0

\* C6: a run_job call skipped by admission control (concurrency limit or
\* cooldown window) changes nothing: the step that skips writes no history
\* row, publishes no event, runs no action, and leaves the job's status
\* fields, the handle map, the active-instance counters, the last-failure
\* timestamps, the daemon and the monitors as they were. (The pre actions run
\* in the dispatch step, which a skipped call never reaches.)
C6_SkipChangesNothing ==
    [][\A c \in Calls :
        (call[c].pc \in {"load", "cooldown"} /\ call'[c].pc = "skipped")
        => UNCHANGED <<job, history, runnerVars, transfer, nextHandle,
                       runLog, mon>>]_vars

\* a call was skipped while the job carried a failed status, a history row
\* and a failure stamp
C6_Witness ==
    \E c \in Calls :
        /\ call[c].pc = "skipped"
        /\ job[call[c].job].last_status = "failed"
        /\ last_failure_times[call[c].job] # None
        /\ Len(history) = 1
        /\ runLog[1] # <<>>

\* C7: for every dispatched transfer the daemon reports finished, the monitor
\* writes the history row, then runs the post_always actions, then the
\* post_success or the post_fail actions, then publishes the terminal
\* job_update: the log of a run whose monitor has ended after the history
\* write ends with these four steps.
C7_FinishSequence ==
    \A h \in Handles :
        (MonitorEnded(h) /\ HistoryWrites(h) > 0)
        => \E st \in {"success", "failed"} :
            /\ Len(runLog[h]) >= 4
            /\ SubSeq(runLog[h], Len(runLog[h]) - 3, Len(runLog[h])) =
                    <<"history">> \o PostLog(st)

\* C8: the events of one dispatched run are a job_update(running), then
\* progress events, then exactly one terminal job_update after which no
\* progress event follows, and the history row of the run has a snapshot: in
\* the log of a run the daemon reported finished and whose monitor has ended,
\* the first entry is the running update, the last is the only terminal
\* update, and the run's row has a non-null job_snapshot.
C8_EventOrder ==
    \A h \in Handles :
        (MonitorEnded(h) /\ HistoryWrites(h) > 0)
        => /\ runLog[h][1] = "job_update_running"
           /\ runLog[h][Len(runLog[h])] \in Terminal
           /\ Cardinality({i \in 1..Len(runLog[h]) : runLog[h][i] \in Terminal}) = 1
           /\ \A i \in 1..Len(history) :
                history[i].run = h => history[i].job_snapshot # 0

\* C9: a failed poll does not end monitoring, so every slot taken is
\* released and a terminal status recorded: when no run_job call is in
\* progress and no monitor task is alive, no active-instance count is held
\* and no job is left in status running.
C9_SlotsReleased ==
    (/\ \A c \in Calls : call[c].pc \in Returned
     /\ \A h \in Handles : mon[h].pc \notin {"poll", "finish"})
    => \A j \in JobIds :
         active_job_counts[j] = 0 /\ job[j].last_status # "running"

\* C10: a missing remote, or a missing or undecryptable credential, makes
\* run_job write a failed row, dispatch nothing and raise: no call holds a
\* handle the daemon returned for a job whose credential is missing.
C10_SetupErrorsNeverDispatch ==
    \A c \in Calls :
        call[c].pc = "committed" => call[c].setup.cred = "ok"

\* C11: if the daemon rejects the start request, run_job writes exactly one
\* failed history row and re-raises; the step spawns no monitor, does not
\* increment the active-instance count, tracks no handle, and starts no
\* transfer.
C11_DispatchRejected ==
    [][\A c \in Calls :
        (call[c].pc = "dispatch" /\ call'[c].pc = "rejected")
        => /\ history' = PruneHistory(Append(history, FailedRow(call[c].job)))
           /\ mon' = mon
           /\ active_job_counts' = active_job_counts
           /\ active_jobs' = active_jobs
           /\ transfer' = transfer
           /\ nextHandle' = nextHandle]_vars

\* the first call for a job was rejected by the daemon: one failed row, no
\* monitor, no count, no handle
C11_Witness ==
    \E c \in Calls :
        /\ call[c].pc = "rejected"
        /\ history = <<FailedRow(call[c].job)>>
        /\ nextHandle = 1
        /\ active_job_counts[call[c].job] = 0
        /\ active_jobs[call[c].job] = 0
        /\ \A h \in Handles : mon[h].pc = "none"

\* C12: when the daemon reports a started transfer finished with
\* success = false, the monitor that receives the report records status
\* failed in the run's history row and in the job's last_status, stores the
\* daemon's error text as the job's last_error, and raises nothing to a
\* caller of run_job (no run_job call changes).
C12_FailedRunRecorded ==
    [][\A h \in Handles :
        (mon[h].pc = "finish" /\ mon'[h].pc # "finish" /\ transfer[h] = "failed")
        => LET j == mon[h].job IN
           /\ job'[j].last_status = "failed"
           /\ job'[j].last_error = "daemon_error"
           /\ history' # <<>>
           /\ history'[Len(history')].status = "failed"
           /\ history'[Len(history')].run = h
           /\ history'[Len(history')].job_id = j
           /\ call' = call]_vars

\* the monitor of a failed transfer has ended; the job's status fields and
\* the newest history row hold the failure, and the call that started the
\* run returned normally
C12_Witness ==
    /\ transfer[1] = "failed"
    /\ mon[1].pc = "done"
    /\ job[1].last_status = "failed"
    /\ job[1].last_error = "daemon_error"
    /\ history # <<>>
    /\ history[Len(history)].status = "failed"
    /\ history[Len(history)].run = 1
    /\ call[1].pc = "done"

\* C13: stop_job only asks the daemon to cancel the tracked handle: the step
\* in which the daemon cancels leaves the handle map, the active-instance
\* counters, the job's status fields, the history, the events and the monitor
\* tasks as they were, and raises nothing to any run_job caller (a stop_job
\* with no tracked handle, or whose daemon call fails, changes nothing at
\* all); the terminal status is left to the monitor.
C13_StopOnlyRequests ==
    [][\A h \in Handles :
        (transfer[h] = "running" /\ transfer'[h] = "cancelled")
        => UNCHANGED <<active_jobs, active_job_counts, job, history, runLog,
                       mon, call, last_failure_times>>]_vars

\* a run was cancelled by stop_job and is still tracked, counted, monitored
\* and marked running
C13_Witness ==
    /\ transfer[1] = "cancelled"
    /\ active_jobs[1] = 1
    /\ active_job_counts[1] = 1
    /\ mon[1].pc = "poll"
    /\ job[1].last_status = "running"
    /\ history = <<>>

\* C14: pruning deletes exactly the oldest excess rows: a step that deletes
\* rows never leaves fewer rows than the ceiling, and every row it deletes is
\* older than every row that survives, also when two history writes prune at
\* the same time.
C14_PruneToCeiling ==
    [][rows' # rows /\ rows' \subseteq rows
        => /\ Cardinality(rows') >= MaxHistoryEntries
           /\ \A d \in rows \ rows' : \A r \in rows' : d < r]_vars

\* the cleanup of session sid has been performed exactly once: its open
\* connection closed, the deletion of its fallback profile requested
CleanedOnce(sid) ==
    /\ closes[sid] = IF sessions[sid].ssh_conn THEN 1 ELSE 0
    /\ deleteReqs[sid] = IF sessions[sid].rclone_remote_name THEN 1 ELSE 0

\* C15: a session idle for longer than the timeout is out of the sessions
\* dict at most one sweep period after it expired; when the sweep is through
\* with a session it removed, the session's connection has been closed and
\* the deletion of its fallback profile requested; and a browse call returns
\* a listing only for a registered session that had not expired.
C15_SweptWithinPeriod ==
    [][/\ \A sid \in Sids :
            sessions'[sid].state = "registered"
                => sessions'[sid].idle <= SessionTimeout + SweepPeriod
       /\ \A sid \in Sids :
            sweeper.cur = sid /\ sweeper'.cur # sid => CleanedOnce(sid)'
       /\ lastBrowse'.result = "listing"
            => /\ sessions[lastBrowse'.sid].state = "registered"
               /\ sessions[lastBrowse'.sid].idle <= SessionTimeout]_vars

\* C16: once a session is out of the sessions dict and no end_session call
\* is working on it, its cleanup has been performed exactly once, whichever
\* of the API, the sweep and stop() called end_session for it.
C16_CleanupExactlyOnce ==
    \A sid \in Sids :
        /\ closes[sid] <= 1 /\ deleteReqs[sid] <= 1
        /\ sessions[sid].state = "ended"
            /\ (\A t \in {sweeper, stopper, ender} : t.cur # sid)
            => CleanedOnce(sid)

\* C17: a create_session call whose direct SSH connection fails provisions
\* the fallback profile and, the daemon accepting it, returns a session id;
\* for a backend that is neither sftp nor local it makes no connection and
\* one daemon call; for a local backend it makes neither and returns an id;
\* and it raises exactly when the fallback provisioning was tried and failed.
C17_FallbackNotError ==
    [][lastCreate'.result # "none" =>
        LET c == lastCreate' IN
        /\ c.try_ssh /\ ~c.ssh_ok
            => /\ c.daemon_calls = 1
               /\ c.daemon_ok
                    => /\ c.result = "id"
                       /\ sessions'[c.sid].state = "registered"
                       /\ sessions'[c.sid].rclone_remote_name
                       /\ c.sid \in profiles'
        /\ c.remote_type \notin {"sftp", "local"}
            => c.connects = 0 /\ c.daemon_calls = 1
        /\ c.remote_type = "local"
            => c.connects = 0 /\ c.daemon_calls = 0 /\ c.result = "id"
        /\ c.result = "error" <=> c.daemon_calls = 1 /\ ~c.daemon_ok
        /\ c.result = "error" => sessions'[c.sid].state # "registered"]_vars

\* a session whose direct connection failed is registered on the fallback
C17_Witness ==
    /\ lastCreate.try_ssh /\ ~lastCreate.ssh_ok
    /\ lastCreate.result = "id"
    /\ sessions[lastCreate.sid].state = "registered"
    /\ sessions[lastCreate.sid].rclone_remote_name
\* C18: within one _execute_actions call the actions run are rows of the
\* call's trigger, no row is run twice, the order values never decrease along
\* the run, and while the loop is going every row of the trigger that has an
\* Action has been run or is still to come, whatever the earlier ones raised.
C18_ActionsInOrder ==
    LET r == act.ran IN
    /\ \A i, j \in 1..Len(r) :
            i < j => /\ r[i] # r[j]
                     /\ job_actions[r[i]].order <= job_actions[r[j]].order
    /\ \A i \in 1..Len(r) :
            job_actions[r[i]].present /\ job_actions[r[i]].trigger = act.trigger
    /\ act.pc = "running" =>
        \A id \in JobActionIds :
            /\ job_actions[id].present
            /\ job_actions[id].trigger = act.trigger
            /\ job_actions[id].has_action
            => \/ \E i \in 1..Len(r) : r[i] = id
               \/ \E i \in 1..Len(act.queue) : act.queue[i] = id

\* two actions of one trigger were run in order after the first one raised
C18_Witness ==
    /\ act.pc = "running" /\ act.queue = <<>>
    /\ Len(act.ran) = 2
    /\ act.ran[1] \in act.errors
    /\ job_actions[act.ran[1]].order < job_actions[act.ran[2]].order

\* C19: _execute_actions never raises to its caller; when the pre actions are
\* through the transfer is dispatched; the post actions leave the status
\* written to history and to the job at the final status; and when the last
\* post actions are through the job_update event is published with the final
\* status, whether actions raised or not.
C19_ActionFailureContained ==
    [][/\ act'.pc # "raised"
       /\ pipeline.pc = "pre" /\ pipeline'.pc # "pre"
            => pipeline'.pc = "monitor" /\ pipeline'.dispatched
       /\ pipeline.pc = "post_always" /\ pipeline'.pc # "post_always"
            => pipeline'.pc = "post_status"
       /\ pipeline.pc \in {"post_always", "post_status"}
            => /\ pipeline'.history = pipeline.final_status
               /\ pipeline'.last_status = pipeline.final_status
               /\ pipeline'.final_status = pipeline.final_status
       /\ pipeline.pc = "post_status" /\ pipeline'.pc # "post_status"
            => pipeline'.event = pipeline.final_status]_vars

\* a run in which a pre action and a post action raised was dispatched and
\* its final status published
C19_Witness ==
    /\ pipeline.pc = "done"
    /\ pipeline.dispatched
    /\ "pre" \in pipeline.failed_in
    /\ pipeline.failed_in \ {"pre"} # {}
    /\ pipeline.final_status \in {"success", "failed"}
    /\ pipeline.event = pipeline.final_status
    /\ pipeline.history = pipeline.final_status
\* C20: the store never holds two triggers under one job id; a call of
\* add_scheduler_job with a cron expression leaves exactly that trigger under
\* the job id, whatever was there, and the triggers of the other ids as they
\* were; remove_scheduler_job takes away the trigger of its job id and no
\* other, changes nothing when the id has none, and neither call raises.
C20_OneTriggerPerJob ==
    [][/\ \A a, b \in store' : a.id = b.id => a = b
       /\ {t \in store' : t.id # lastSched'.job_id}
            = {t \in store : t.id # lastSched'.job_id}
       /\ lastSched'.op = "add" /\ IsCron(lastSched'.cron_expression)
            => [id |-> lastSched'.job_id,
                trigger |-> lastSched'.cron_expression] \in store'
       /\ lastSched'.op = "remove"
            => /\ \A t \in store' : t.id # lastSched'.job_id
               /\ ~lastSched'.had_trigger => store' = store
       /\ ~lastSched'.raised]_vars

\* a job id that had a trigger was given another one, and holds only that
C20_Witness ==
    /\ lastSched.op = "add" /\ lastSched.had_trigger
    /\ IsCron(lastSched.cron_expression)
    /\ \A t \in store : t.id = lastSched.job_id
            => t.trigger = lastSched.cron_expression
    /\ lastSched.job_id \in Scheduled
    /\ Cardinality(store) > 1
\* the schedules the synchronizer is to register: a cron expression, a cron
\* template, an interval template with positive minutes or hours
Resolvable(schedule) ==
    \/ schedule = "0 * * * *"
    \/ /\ schedule \in DOMAIN Templates
       /\ \/ /\ Templates[schedule].schedule_type = "cron"
             /\ Templates[schedule].cron # ""
          \/ /\ Templates[schedule].schedule_type = "interval"
             /\ Templates[schedule].minutes > 0 \/ Templates[schedule].hours > 0

\* C21: after a sync every enabled job it read whose schedule is resolvable
\* has a trigger under its job id, and a job whose schedule is empty, manual
\* or unresolvable has none that the sync put there.
C21_SyncRegisters ==
    [][lastSync'.op = "sync" =>
        \A id \in SyncJobIds :
            LET row == lastSync'.jobs[id] IN
            IF row.enabled /\ Resolvable(row.schedule)
            THEN id \in {t.id : t \in store'}
            ELSE {t \in store' : t.id = id} = {t \in store : t.id = id}]_vars
\* C22: no Job row is gone from the table while a monitor of one of its
\* transfers is still polling or finishing.
C22_NoDeleteWhileMonitored ==
    \A j \in JobIds :
        j \notin job_rows
            => \A h \in Handles :
                ~(mon[h].job = j /\ mon[h].pc \in {"poll", "finish"})
\* C23: a get_fs_string call for a remote whose type is not a supported
\* backend raises the unsupported-backend error, and an address is returned
\* only for a supported type.
C23_UnsupportedRaises ==
    [][lastFs'.type # "none" =>
        /\ lastFs'.type \notin SupportedTypes
            => lastFs'.result = "raised" /\ lastFs'.error = "unsupported"
        /\ lastFs'.result = "address"
            => lastFs'.type \in SupportedTypes]_vars
\* the clear password of the call is in no parameter of the address
NoClearPassword(c) ==
    c.credential \notin {"none", ""}
        => \A kv \in c.params : kv[2] # c.credential

\* C24: the address get_fs_string returns for a backend that takes a password
\* carries the password only as the token of the daemon's obscure call and
\* in no parameter in clear; and when that call fails for a password that is
\* set, get_fs_string raises.
C24_PasswordObscured ==
    [][lastFs'.type \in {"webdav", "sftp", "ftp", "smb"} =>
        LET c == lastFs' IN
        /\ NoClearPassword(c)
        /\ \A kv \in c.params :
                kv[1] = "pass" => /\ c.obscure = "ok"
                                  /\ kv[2] = DaemonObscure(c.credential)
        /\ c.credential \notin {"none", ""} /\ c.obscure = "fails"
                /\ (c.type = "webdav" => c.url # "")
            => c.result = "raised" /\ c.error = "obscure"]_vars

\* an address was returned that carries the token of a password
C24_Witness ==
    /\ lastFs.type = "sftp" /\ lastFs.result = "address"
    /\ lastFs.credential = "hunter2"
    /\ <<"pass", DaemonObscure("hunter2")>> \in lastFs.params

\* the string ends with a separator
EndsWithSeparator(str) == str # <<>> /\ str[Len(str)] = "/"

\* the last segment of a path: what is left of it, without leading and
\* trailing separators, after its last separator
LastSegment(path) ==
    LET p == Strip(path)
        cut == {i \in 1..Len(p) : p[i] = "/"}
        from == IF cut = {} THEN 1
                ELSE (CHOOSE i \in cut : \A k \in cut : k <= i) + 1
    IN  SubSeq(p, from, Len(p))

\* what C25 says of one address construction whose source_path is counted as
\* given when `given` holds of it
CopyModeHolds(p, given) ==
    /\ p.copy_mode = "folder" /\ given
        => /\ p.dst = RStrip(p.resolved_dst) \o <<"/">>
                        \o LastSegment(p.source_path)
           /\ ~EndsWithSeparator(p.src)
    /\ p.copy_mode = "contents"
        => /\ p.dst = p.resolved_dst
           /\ EndsWithSeparator(p.src)
           /\ ~EndsWithSeparator(SubSeq(p.src, 1, Len(p.src) - 1))

\* C25: with copy_mode folder and a source_path that has a segment (it is
\* not made of separators only), the destination passed to the daemon is the
\* resolved destination followed by the last segment of source_path and the
\* source has no trailing separator; with copy_mode contents the destination
\* is the resolved destination and the source ends with exactly one
\* separator.
C25_CopyMode ==
    [][lastPaths'.copy_mode # "none" =>
        CopyModeHolds(lastPaths', Strip(lastPaths'.source_path) # <<>>)]_vars

\* the folder of a source path of two segments was joined onto a destination
C25_Witness ==
    /\ lastPaths.copy_mode = "folder"
    /\ lastPaths.source_path = <<"a", "/", "b">>
    /\ lastPaths.dst = lastPaths.resolved_dst \o <<"/", "b">>
    /\ lastPaths.src = <<":", "/", "a", "/", "b">>

\* C25 as stated: the same for every non-empty source_path.
C25_AsStated ==
    [][lastPaths'.copy_mode # "none" =>
        CopyModeHolds(lastPaths', lastPaths'.source_path # <<>>)]_vars
\* the sessions a sweeper record is ending or has still to end
SweepTargets(s) == (IF s.cur = 0 THEN {} ELSE {s.cur}) \cup s.pending

\* C26: nothing excludes the idle sweep from a session whose browse call is
\* in flight: a sweep that wakes ends every registered session that is
\* expired at that moment, the first of them at once, whether or not a
\* browse call is suspended on it.
C26_SweepIgnoresBrowse ==
    [][sweeper.pc = "sleep" /\ sweeper'.pc = "wait" =>
        /\ SweepTargets(sweeper') =
                {sid \in Registered : IsExpired(sessions[sid].idle)}
        /\ sessions'[sweeper'.cur].state = "ended"]_vars

\* the sweep has removed a session, and is closing it, while the browse call
\* on that session is suspended waiting for its listing
C26_Witness ==
    /\ browser.pc = "wait"
    /\ sessions[browser.sid].state = "ended"
    /\ sweeper.pc = "wait" /\ sweeper.cur = browser.sid

\* the same through end_session called by the API
C26_EndedMidBrowse ==
    /\ browser.pc = "wait"
    /\ sessions[browser.sid].state = "ended"
    /\ ender.pc = "wait" /\ ender.cur = browser.sid
\* C30: a browse call that gets its session enters exactly one listing
\* strategy, chosen in the order: the open connection when the session has
\* one, else the local enumeration when the remote type is local, else the
\* daemon's list call on the fallback profile; when the call resumes, with
\* the listing or with an error, it has entered no other strategy. (A session
\* is local exactly when it was created for a remote of type local.)
C30_OneStrategyByPriority ==
    [][/\ lastCreate'.result = "id"
            => (IsLocal(sessions'[lastCreate'.sid])
                    <=> lastCreate'.remote_type = "local")
       /\ browser.pc = "off" /\ browser' # browser
                             /\ browser'.result # "not_found"
            => LET session == sessions[browser'.sid]
               IN  browser'.used =
                       {IF session.ssh_conn THEN "ssh"
                        ELSE IF IsLocal(session) THEN "local"
                        ELSE "rclone"}
       /\ browser.pc = "wait" /\ browser'.pc = "off"
            => /\ browser'.used = browser.used
               /\ Cardinality(browser'.used) = 1]_vars

\* the listing over the open connection has failed, and the call has ended
\* with the error without trying another strategy
C30_Witness ==
    /\ browser.pc = "off" /\ browser.result = "error"
    /\ browser.used = {"ssh"}
    /\ sessions[browser.sid].ssh_conn
\* C29: a browse call on a registered session that is not older than the
\* idle timeout returns a listing and resets its idle time; a browse call on
\* one that is older is answered not found, also while it is still
\* registered, and changes no session; the sweep removes only sessions older
\* than the timeout; and a registered session older than the timeout stays so
\* for as long as it is registered.
C29_RefreshUnlessExpired ==
    [][/\ lastBrowse'.sid # 0
            => LET sid == lastBrowse'.sid
               IN  IF sessions[sid].state = "registered"
                      /\ sessions[sid].idle <= SessionTimeout
                   THEN /\ lastBrowse'.result = "listing"
                        /\ sessions'[sid].state = "registered"
                        /\ sessions'[sid].idle = 0
                   ELSE /\ lastBrowse'.result = "not_found"
                        /\ sessions' = sessions
       /\ \A sid \in Sids :
            /\ sessions[sid].state = "registered"
            /\ sessions'[sid].state = "ended"
            /\ sweeper'.pc = "wait" /\ sweeper'.cur = sid
            => sessions[sid].idle > SessionTimeout
       /\ \A sid \in Sids :
            /\ sessions[sid].state = "registered"
            /\ sessions[sid].idle > SessionTimeout
            /\ sessions'[sid].state = "registered"
            => sessions'[sid].idle > SessionTimeout]_vars

\* a browse call on a session older than the timeout, which the sweep has
\* not removed yet, was answered not found
C29_Witness ==
    /\ lastBrowse.sid # 0 /\ lastBrowse.result = "not_found"
    /\ sessions[lastBrowse.sid].state = "registered"
    /\ sessions[lastBrowse.sid].idle > SessionTimeout
\* the finished run of job j the monitors recorded last was a failed one
LastRecordedFailed(j) == failed_ago[j] # None /\ ~succeeded_since[j]

\* C27: a job has a last-failure stamp exactly when the finished run of the
\* job that a monitor recorded last has failed, and the stamp is the time of
\* that record; and a run_job call is skipped for cooldown only then, so
\* never when the run recorded last has succeeded.
C27_StampIffLastRunFailed ==
    [][/\ \A j \in JobIds :
            /\ last_failure_times'[j] # None <=> LastRecordedFailed(j)'
            /\ last_failure_times'[j] # None
                    => last_failure_times'[j] = failed_ago'[j]
       /\ \A c \in Calls :
            call[c].pc = "cooldown" /\ call'[c].pc = "skipped"
                => LastRecordedFailed(call[c].job)]_vars

\* a run of the job was recorded as failed and a later one as successful:
\* the stamp is gone, and a call has passed the cooldown check
C27_Witness ==
    \E j \in JobIds, c \in Calls :
        /\ failed_ago[j] # None /\ succeeded_since[j]
        /\ last_failure_times[j] = None
        /\ call[c].job = j /\ call[c].pc = "dispatch"
\* C28: when the last history row of a job is the failed row of a run
\* attempt that failed at once (a setup error or a rejected dispatch), written
\* less than failure_cooldown_seconds ago, a run_job call for the job made
\* after it does not pass the cooldown check.
C28_ImmediateFailureCoolsDown ==
    [][/\ call[1].pc = "cooldown"
       /\ history # <<>>
       /\ history[Len(history)] = FailedRow(call[1].job)
       => call'[1].pc # "dispatch"]_vars
\* C31: a browse call that has ended is answered 404 exactly when its
\* session id was unknown or expired: the not-found condition is told apart
\* from every failure of a listing on a live session.
C31_NotFoundDistinct ==
    browser.pc = "off" /\ browser.result # "none"
        => (HttpStatus(browser.result) = 404
                <=> browser.result = "not_found")
\* the messages numbered a+1 .. b, in order
Range(a, b) == [i \in 1..(b - a) |-> a + i]

\* the stream's queue is in the subscriber list
Subscribed(sub) == \E i \in 1..Len(subscribers) : subscribers[i] = sub

\* C32 (delivery): what a connected stream has been sent, is being sent and
\* has queued is, in this order, exactly the messages published since it
\* subscribed: every one of them, in publication order, and none older.
C32_DeliveredInOrder ==
    \A sub \in Subs :
        stream[sub].pc \in {"get", "yield"}
            => /\ Subscribed(sub)
               /\ stream[sub].got \o stream[sub].yielded \o stream[sub].queue
                    = Range(stream[sub].from, published)

\* C32: the delivery property, and a stream that has disconnected is not in
\* the subscriber list any more, so that no later publish enqueues for it.
C32_EventChannel ==
    /\ C32_DeliveredInOrder
    /\ \A sub \in Subs : stream[sub].pc = "closed" => ~Subscribed(sub)
\* the monitor tasks of job j that have not ended
LiveMonitors(j) ==
    {h \in Handles : mon[h].job = j /\ mon[h].pc \in {"poll", "finish"}}

\* C33: the active-instance count of a job is never negative and never
\* exceeds the number of its monitor tasks still alive: a monitor that has
\* ended has released its slot, and with no live monitor the count is zero.
C33_CountIsLiveMonitors ==
    \A j \in JobIds :
        /\ GetActiveCount(active_job_counts, j) >= 0
        /\ GetActiveCount(active_job_counts, j) <= Cardinality(LiveMonitors(j))
\* the transfers of job j that the daemon is running and that are being
\* monitored, or were just dispatched by a run_job about to spawn the monitor
TransfersInFlight(j) ==
    {h \in Handles :
        /\ transfer[h] = "running"
        /\ \/ mon[h].pc = "poll" /\ mon[h].job = j
           \/ \E c \in Calls : /\ call[c].pc = "committed"
                                /\ call[c].handle = h /\ call[c].job = j}

\* C34: whenever a transfer of a job is in flight, the handle map holds for
\* the job the handle of one of its transfers in flight (the one stop_job
\* asks the daemon to stop); the finish of another instance does not take
\* it away.
C34_HandleOfInFlightTransfer ==
    \A j \in JobIds :
        TransfersInFlight(j) # {} => active_jobs[j] \in TransfersInFlight(j)
\* C35: for a job that may run several instances at once, the history row
\* of every monitored run carries the configuration snapshot and the start
\* time captured at that run's own dispatch, neither of them missing nor
\* taken from another instance.
C35_OwnSnapshotAndStart ==
    \A i \in 1..Len(history) :
        LET row == history[i] IN
        /\ row.run # 0
        /\ job[row.job_id].cfg.allow_concurrent_runs
        /\ job[row.job_id].cfg.max_concurrent_runs > 1
        => row.job_snapshot = row.run /\ row.started_at = row.run
\* C36: for a job with allow_concurrent_runs = false, run_job runs the pre
\* actions and dispatches a transfer only when no monitor of an earlier run
\* of the job is still between the finish of its transfer and its terminal
\* job_update event (writing the history row, running the post actions).
C36_NoDispatchBeforeCompletion ==
    [][\A c \in Calls :
        /\ call[c].pc = "dispatch" /\ call'[c].pc = "committed"
        /\ ~job[call[c].job].cfg.allow_concurrent_runs
        => \A h \in Handles :
                ~(mon[h].job = call[c].job /\ mon[h].pc = "finish")]_vars
\* C37: a trigger is registered for a job id only if the Job row exists, is
\* enabled and has a schedule other than manual.
C37_NoStaleTrigger ==
    \A id \in SyncJobIds :
        id \in Scheduled
            => /\ job_table[id].present
               /\ job_table[id].enabled
               /\ job_table[id].schedule \notin {"", "Manual"}
\* C38: every registered browse session holds exactly one listing strategy,
\* the one chosen by the create_session call that registered it, and keeps
\* it while it is registered: it never has both an open connection and a
\* temporary profile; a session created for a local remote has neither; a
\* session created for any other remote has exactly one of the two, the
\* connection exactly when the connection attempt succeeded; and no step
\* changes either field of a session that stays registered.
C38_OneStrategyForLife ==
    [][\A sid \in Sids : sessions'[sid].state = "registered" =>
        LET session == sessions'[sid] IN
        /\ ~(session.ssh_conn /\ session.rclone_remote_name)
        /\ IF sessions[sid].state = "registered"
           THEN /\ session.ssh_conn = sessions[sid].ssh_conn
                /\ session.rclone_remote_name =
                        sessions[sid].rclone_remote_name
           ELSE /\ lastCreate'.sid = sid /\ lastCreate'.result = "id"
                /\ session.ssh_conn = lastCreate'.ssh_ok
                /\ IF lastCreate'.remote_type = "local"
                   THEN ~session.ssh_conn /\ ~session.rclone_remote_name
                   ELSE session.ssh_conn # session.rclone_remote_name]_vars

\* a session on the direct connection and a session on the fallback profile
\* are both registered, have both been left idle and one of them has then
\* been browsed
C38_Witness ==
    \E a, b \in Registered :
        /\ sessions[a].ssh_conn /\ ~sessions[a].rclone_remote_name
        /\ sessions[b].rclone_remote_name /\ ~sessions[b].ssh_conn
        /\ sessions[a].idle > 0
        /\ lastBrowse.sid = b /\ lastBrowse.result = "listing"
\* the end_session calls in progress for session sid: popped, not yet resumed
EndingNow(sid) ==
    \E t \in {sweeper, stopper, ender} : t.pc = "wait" /\ t.cur = sid

\* C39: a create_session call that raised has left no session registered
\* under its id, no open connection and no temporary profile on the daemon;
\* and every temporary profile on the daemon belongs to a registered session,
\* unless an end_session call (made by the API, the sweep or stop) has
\* popped the session and is about to request, or has requested, the
\* profile's deletion.
C39_FailedCreateLeavesNothing ==
    \A sid \in Sids :
        /\ sessions[sid].state = "failed"
            => /\ sid \notin Registered
               /\ ~sessions[sid].ssh_conn
               /\ sid \notin profiles
        /\ sid \in profiles
            => \/ sid \in Registered
               \/ deleteReqs[sid] > 0
               \/ EndingNow(sid)
====
